---- MODULE Spec2Model ----
(***************************************************************************)
(* Model of the corpus snapshot store: the version generator               *)
(* (generate_version), the snapshot engine (create_store: put / get /      *)
(* delete) running over the in-memory backend (create_memory_backend with  *)
(* the shared metadata and data clients of backend/base.ts), and the       *)
(* metadata read operations list / get_latest / get_children.              *)
(*                                                                         *)
(* Strings are sequences of one-character strings, so that the template    *)
(* literals, startsWith tests and lexicographic comparisons of the source  *)
(* are computed character by character. A JS Map is a sequence of          *)
(* [key, value] entries in insertion order.                                *)
(***************************************************************************)
EXTENDS Integers, Sequences, FiniteSets, TLC

VARIABLES
    last_timestamp,  \* utils.ts: let last_timestamp
    sequence,        \* utils.ts: let sequence
    call_a,          \* some earlier generate_version call: [version, at]
    call_b,          \* the most recent generate_version call: [version, at]
    meta_store,      \* memory.ts: meta_store, a Map in insertion order
    data_store,      \* memory.ts: data_store, a Map in insertion order
    tasks,           \* the store operations in flight, each with its locals and position
    done,            \* the store operations that have returned, with their results
    started,         \* how many store operations were started: [puts, reads]
    out,             \* the last client call and what it returned
    clock,           \* the last wall-clock reading, and whether readings never went back
    layered,         \* layered.ts: the read and write lists, list_strategy and the backends
    observation_store, \* memory.ts: observation_store, a Map in insertion order
    semaphore,       \* concurrency.ts: a Semaphore, [permits, waiting]
    builder          \* corpus.ts: create_corpus, [backend, definitions]

vars == <<last_timestamp, sequence, call_a, call_b, meta_store, data_store, tasks, done, started, out,
          clock, layered, observation_store, semaphore, builder>>

(***************************************************************************)
(* Bounds                                                                  *)
(***************************************************************************)
MaxTick == 1    \* the wall clock returns readings ClockBase .. ClockBase + MaxTick
MaxSeq == 10    \* generate_version is called at most MaxSeq + 1 times per reading
MaxPuts == 2    \* store.put calls started in one run that also has get and delete
MaxPutsOnly == 3 \* store.put calls started in one run of puts alone
MaxReads == 1   \* store.get and store.delete calls started in one run
MaxInFlight == 2 \* store operations in flight at the same time
MaxMetas == 2   \* rows written through metadata.put in the metadata-client runs

None == "none"

\* A value that may be null or undefined: <<>> when it is, <<v>> otherwise.
Null == <<>>
Some(v) == <<v>>
IsNull(o) == Len(o) = 0
The(o) == o[1]

(***************************************************************************)
(* Strings                                                                 *)
(***************************************************************************)
\* The characters from "+" (43) to "z" (122) in code-unit order.
AsciiFrom43 ==
    << "+", ",", "-", ".", "/",
       "0", "1", "2", "3", "4", "5", "6", "7", "8", "9",
       ":", ";", "<", "=", ">", "?", "@",
       "A", "B", "C", "D", "E", "F", "G", "H", "I", "J", "K", "L", "M",
       "N", "O", "P", "Q", "R", "S", "T", "U", "V", "W", "X", "Y", "Z",
       "[", "bslash", "]", "^", "_", "btick",
       "a", "b", "c", "d", "e", "f", "g", "h", "i", "j", "k", "l", "m",
       "n", "o", "p", "q", "r", "s", "t", "u", "v", "w", "x", "y", "z" >>

\* The UTF-16 code unit of a character.
CharCode(c) == 42 + (CHOOSE i \in 1..Len(AsciiFrom43) : AsciiFrom43[i] = c)

\* a < b on JS strings: code-unit order, a proper prefix is smaller.
RECURSIVE StrLt(_, _)
StrLt(a, b) ==
    IF b = <<>> THEN FALSE
    ELSE IF a = <<>> THEN TRUE
    ELSE IF Head(a) = Head(b) THEN StrLt(Tail(a), Tail(b))
    ELSE CharCode(Head(a)) < CharCode(Head(b))

\* key.startsWith(prefix)
StartsWith(s, prefix) ==
    /\ Len(prefix) <= Len(s)
    /\ SubSeq(s, 1, Len(prefix)) = prefix

\* a non-negative integer in a template literal
RECURSIVE NumberToString(_)
NumberToString(n) ==
    LET digit == <<"0", "1", "2", "3", "4", "5", "6", "7", "8", "9">>[(n % 10) + 1]
    IN  IF n < 10 THEN <<digit>> ELSE Append(NumberToString(n \div 10), digit)

(***************************************************************************)
(* generate_version                                                        *)
(***************************************************************************)
\* The alphabet of btoa.
Base64Alphabet ==
    << "A", "B", "C", "D", "E", "F", "G", "H", "I", "J", "K", "L", "M",
       "N", "O", "P", "Q", "R", "S", "T", "U", "V", "W", "X", "Y", "Z",
       "a", "b", "c", "d", "e", "f", "g", "h", "i", "j", "k", "l", "m",
       "n", "o", "p", "q", "r", "s", "t", "u", "v", "w", "x", "y", "z",
       "0", "1", "2", "3", "4", "5", "6", "7", "8", "9", "+", "/" >>

Sextet(n) == Base64Alphabet[n + 1]

\* btoa over a byte sequence, with "=" padding.
RECURSIVE Btoa(_)
Btoa(bytes) ==
    IF Len(bytes) = 0 THEN <<>>
    ELSE IF Len(bytes) = 1 THEN
        << Sextet(bytes[1] \div 4), Sextet((bytes[1] % 4) * 16), "=", "=" >>
    ELSE IF Len(bytes) = 2 THEN
        << Sextet(bytes[1] \div 4),
           Sextet((bytes[1] % 4) * 16 + bytes[2] \div 16),
           Sextet((bytes[2] % 16) * 4), "=" >>
    ELSE
        << Sextet(bytes[1] \div 4),
           Sextet((bytes[1] % 4) * 16 + bytes[2] \div 16),
           Sextet((bytes[2] % 16) * 4 + bytes[3] \div 64),
           Sextet(bytes[3] % 64) >> \o Btoa(SubSeq(bytes, 4, Len(bytes)))

\* the three replace calls: plus to minus, slash to underscore, = removed
RECURSIVE UrlSafe(_)
UrlSafe(s) ==
    IF s = <<>> THEN <<>>
    ELSE LET c == Head(s)
         IN  IF c = "=" THEN UrlSafe(Tail(s))
             ELSE <<(IF c = "+" THEN "-" ELSE IF c = "/" THEN "_" ELSE c)>> \o UrlSafe(Tail(s))

\* view.setBigUint64(0, BigInt(n), false): the low k bytes of n, big-endian.
RECURSIVE BigEndian(_, _)
BigEndian(n, k) ==
    IF k = 0 THEN <<>> ELSE Append(BigEndian(n \div 256, k - 1), n % 256)

\* while (start < 7 && timestamp_bytes[start] === 0) start++ ; slice(start)
RECURSIVE TrimLeadingZeros(_)
TrimLeadingZeros(bytes) ==
    IF Len(bytes) > 1 /\ Head(bytes) = 0 THEN TrimLeadingZeros(Tail(bytes)) ELSE bytes

TimestampToken(t) == UrlSafe(Btoa(TrimLeadingZeros(BigEndian(t, 8))))

\* The sequence number the call leaves behind for a reading t.
NextSequence(t) == IF t = last_timestamp THEN sequence + 1 ELSE 0

\* The string the call returns for a reading t.
VersionString(t, seq) ==
    IF seq > 0 THEN TimestampToken(t) \o <<".">> \o NumberToString(seq)
    ELSE TimestampToken(t)

ClockBase == 207
Times == ClockBase .. (ClockBase + MaxTick)

\* Date.now() / new Date() returns the reading now.
Tick(now) == [last |-> now, monotone |-> clock.monotone /\ clock.last <= now]

\* The readings of a run whose calls all fall within one millisecond.
SameMillisecond == { ClockBase }

(***************************************************************************)
(* Values                                                                  *)
(***************************************************************************)
\* Two stores defined on one corpus: define_store('a', ...), define_store('a:b', ...)
StoreIds == { <<"a">>, <<"a", ":", "b">> }

\* Payloads of a binary_codec store: Uint8Array values.
Payloads == { <<1>>, <<2>> }

\* binary_codec: encode and decode return their argument.
encode(value) == value
decode(bytes) == bytes

\* b.toString(16).padStart(2, '0')
HexByte(b) ==
    LET hex == <<"0", "1", "2", "3", "4", "5", "6", "7", "8", "9", "a", "b", "c", "d", "e", "f">>
    IN  << hex[(b \div 16) + 1], hex[(b % 16) + 1] >>

\* compute_hash: the digest is taken to be collision-free on Payloads (it is
\* the bytes themselves); the hex rendering is the one of the source.
RECURSIVE compute_hash(_)
compute_hash(bytes) ==
    IF bytes = <<>> THEN <<>> ELSE HexByte(Head(bytes)) \o compute_hash(Tail(bytes))

\* tags: undefined
NoTags == Null

ParentOfBase == [store_id |-> <<"a">>, version |-> TimestampToken(ClockBase), role |-> None]

\* The opts a caller passes to store.put.
PutOptsSet ==
    { [parents |-> <<ParentOfBase>>, tags |-> Some(<<"x">>)] }

(***************************************************************************)
(* Map: entries in insertion order                                         *)
(***************************************************************************)
MapKeys(m) == { m[i][1] : i \in 1..Len(m) }

MapHas(m, k) == k \in MapKeys(m)

\* Map.get(k) ?? null
MapGet(m, k) ==
    IF MapHas(m, k) THEN Some(m[CHOOSE i \in 1..Len(m) : m[i][1] = k][2]) ELSE Null

\* Map.set: an existing key keeps its position, a new key goes last.
MapSet(m, k, v) ==
    IF MapHas(m, k)
    THEN [i \in 1..Len(m) |-> IF m[i][1] = k THEN <<k, v>> ELSE m[i]]
    ELSE Append(m, <<k, v>>)

\* Map.delete
MapDelete(m, k) == SelectSeq(m, LAMBDA e : e[1] # k)

(***************************************************************************)
(* create_memory_backend: metadata_storage and data_storage                *)
(***************************************************************************)
make_meta_key(store_id, version) == store_id \o <<":">> \o version

metadata_storage_get(ms, store_id, version) == MapGet(ms, make_meta_key(store_id, version))

metadata_storage_put(ms, meta) == MapSet(ms, make_meta_key(meta.store_id, meta.version), meta)

\* A delete that drops every row of the store, not only the version's.
metadata_storage_delete_store(ms, store_id, version) ==
    SelectSeq(ms, LAMBDA e : e[2].store_id # store_id)

\* a delete that leaves the Map as it was
metadata_storage_delete_kept(ms, store_id, version) == ms

metadata_storage_delete(ms, store_id, version) == MapDelete(ms, make_meta_key(store_id, version))

\* list(store_id): the metas whose key starts with the prefix, in Map order.
metadata_storage_list(ms, store_id) ==
    LET prefix == IF store_id # <<>> THEN store_id \o <<":">> ELSE <<>>
        hits == SelectSeq(ms, LAMBDA e : prefix = <<>> \/ StartsWith(e[1], prefix))
    IN  [i \in 1..Len(hits) |-> hits[i][2]]

\* A find_by_hash that finds nothing.
metadata_storage_find_by_hash_none(ms, store_id, content_hash) == Null

\* find_by_hash: the first meta in Map order with the prefix and the hash.
metadata_storage_find_by_hash(ms, store_id, content_hash) ==
    LET prefix == store_id \o <<":">>
        hits == SelectSeq(ms, LAMBDA e : StartsWith(e[1], prefix) /\ e[2].content_hash = content_hash)
    IN  IF Len(hits) = 0 THEN Null ELSE Some(hits[1][2])

data_storage_get(ds, data_key) == MapGet(ds, data_key)

\* A put that loses the write.
data_storage_put_lost(ds, data_key, data) == ds

data_storage_put(ds, data_key, data) == MapSet(ds, data_key, data)

(***************************************************************************)
(* Results                                                                 *)
(***************************************************************************)
Ok(v) == [ok |-> TRUE, value |-> v]
Err(e) == [ok |-> FALSE, error |-> e]
NotFound(store_id, version) == Err([kind |-> "not_found", store_id |-> store_id, version |-> version])

(***************************************************************************)
(* create_store                                                            *)
(***************************************************************************)
make_data_key(store_id, content_hash) == store_id \o <<"/">> \o content_hash

\* The SnapshotMeta put assembles.
SnapshotMeta(t, created_at) ==
    [ store_id     |-> t.store_id,
      version      |-> t.version,
      parents      |-> t.opts.parents,
      created_at   |-> created_at,
      content_hash |-> t.content_hash,
      content_type |-> "application/octet-stream",
      size_bytes   |-> Len(t.bytes),
      data_key     |-> t.data_key,
      tags         |-> t.opts.tags ]

\* tasks without task i
DropTask(i) == SubSeq(tasks, 1, i - 1) \o SubSeq(tasks, i + 1, Len(tasks))

\* Versions a caller can pass to get and delete: those returned by put so far,
\* those of the rows present, and one fixed token.
KnownVersions ==
    { d.result.value.version : d \in { e \in done : e.kind = "put" } }
        \cup { meta_store[i][2].version : i \in 1..Len(meta_store) }
        \cup { TimestampToken(ClockBase) }

\* put, up to the await of compute_hash: generate_version and codec.encode.
\* now is the reading Date.now() returns to generate_version; the wall clock is
\* not monotonic, so any reading may follow any other.
PutStart(max_puts, store_id, data, opts, now) ==
    /\ clock' = Tick(now)
    /\ started.puts < max_puts
    /\ Len(tasks) < MaxInFlight
    /\ NextSequence(now) <= MaxSeq
    /\ last_timestamp' = now
    /\ sequence' = NextSequence(now)
    /\ tasks' = Append(tasks,
         [ kind |-> "put", store_id |-> store_id, data |-> data, opts |-> opts,
           version |-> VersionString(now, NextSequence(now)),
           bytes |-> encode(data), content_hash |-> <<>>, existing |-> Null,
           data_key |-> <<>>, pc |-> "hash", issued |-> started.puts + 1 ])
    /\ started' = [started EXCEPT !.puts = @ + 1]
    /\ UNCHANGED <<call_a, call_b, meta_store, data_store, done, out, layered, observation_store, semaphore, builder>>

\* put resumes with the hash and calls metadata.find_by_hash.
PutFind(i) ==
    /\ tasks[i].kind = "put" /\ tasks[i].pc = "hash"
    /\ LET h == compute_hash(tasks[i].bytes)
       IN  tasks' = [tasks EXCEPT ![i] = [@ EXCEPT
                 !.content_hash = h,
                 !.existing = metadata_storage_find_by_hash(meta_store, tasks[i].store_id, h),
                 !.pc = "find"]]
    /\ UNCHANGED <<last_timestamp, sequence, call_a, call_b, meta_store, data_store, done, started, out, clock, layered, observation_store, semaphore, builder>>

\* put resumes with existing = null: data.put writes the blob.
PutData(i) ==
    /\ tasks[i].kind = "put" /\ tasks[i].pc = "find"
    /\ IsNull(tasks[i].existing)
    /\ LET data_key == make_data_key(tasks[i].store_id, tasks[i].content_hash)
       IN  /\ data_store' = data_storage_put(data_store, data_key, tasks[i].bytes)
           /\ tasks' = [tasks EXCEPT ![i] = [@ EXCEPT !.data_key = data_key, !.pc = "data"]]
    /\ UNCHANGED <<last_timestamp, sequence, call_a, call_b, meta_store, done, started, out, clock, layered, observation_store, semaphore, builder>>

\* The events put hands to on_event on the way to returning Ok: data_put after
\* the data step, snapshot_put after metadata.put.
PutEmits(t) ==
    << [ type |-> "data_put", store_id |-> t.store_id, version |-> t.version,
         size_bytes |-> Len(t.bytes), deduplicated |-> ~IsNull(t.existing) ],
       [ type |-> "snapshot_put", store_id |-> t.store_id, version |-> t.version,
         content_hash |-> t.content_hash, deduplicated |-> ~IsNull(t.existing) ] >>

\* The record of a put that returned: its result, the events it emitted and
\* whether it wrote to the data store.
PutDone(t, result) ==
    [ kind |-> "put", store_id |-> t.store_id, data |-> t.data, issued |-> t.issued,
      result |-> result, emitted |-> PutEmits(t), wrote_data |-> t.pc = "data" ]

\* put resumes with existing # null: no data write; the meta is assembled
\* with the existing data_key (created_at = new Date()) and metadata.put stores it.
PutMetaDedup(i, now) ==
    /\ clock' = Tick(now)
    /\ tasks[i].kind = "put" /\ tasks[i].pc = "find"
    /\ ~IsNull(tasks[i].existing)
    /\ LET t == [tasks[i] EXCEPT !.data_key = The(tasks[i].existing).data_key]
           meta == SnapshotMeta(t, now)
       IN  /\ meta_store' = metadata_storage_put(meta_store, meta)
           /\ done' = done \cup { PutDone(t, Ok(meta)) }
    /\ tasks' = DropTask(i)
    /\ UNCHANGED <<last_timestamp, sequence, call_a, call_b, data_store, started, out, layered, observation_store, semaphore, builder>>

\* put resumes after data.put: the meta is assembled (created_at = new Date())
\* and metadata.put stores it.
PutMeta(i, now) ==
    /\ clock' = Tick(now)
    /\ tasks[i].kind = "put" /\ tasks[i].pc = "data"
    /\ LET meta == SnapshotMeta(tasks[i], now)
       IN  /\ meta_store' = metadata_storage_put(meta_store, meta)
           /\ done' = done \cup { PutDone(tasks[i], Ok(meta)) }
    /\ tasks' = DropTask(i)
    /\ UNCHANGED <<last_timestamp, sequence, call_a, call_b, data_store, started, out, layered, observation_store, semaphore, builder>>

\* get calls metadata.get.
GetStart(store_id, version) ==
    /\ started.reads < MaxReads
    /\ Len(tasks) < MaxInFlight
    /\ tasks' = Append(tasks,
         [ kind |-> "get", store_id |-> store_id, version |-> version,
           meta |-> metadata_storage_get(meta_store, store_id, version),
           pc |-> "meta" ])
    /\ started' = [started EXCEPT !.reads = @ + 1]
    /\ UNCHANGED <<last_timestamp, sequence, call_a, call_b, meta_store, data_store, done, out, clock, layered, observation_store, semaphore, builder>>

\* What get returns once it has the meta: not_found, or data.get(meta.data_key)
\* and codec.decode.
GetResult(ds, store_id, version, meta) ==
    IF IsNull(meta) THEN NotFound(store_id, version)
    ELSE LET bytes == data_storage_get(ds, The(meta).data_key)
         IN  IF IsNull(bytes) THEN NotFound(The(meta).data_key, <<>>)
             ELSE Ok([meta |-> The(meta), data |-> decode(The(bytes))])

\* The events get hands to on_event: snapshot_get with found false when
\* metadata.get failed, error when data.get failed, snapshot_get otherwise.
GetEmits(ds, store_id, version, meta) ==
    LET result == GetResult(ds, store_id, version, meta)
    IN  IF IsNull(meta)
        THEN << [type |-> "snapshot_get", store_id |-> store_id, version |-> version, found |-> FALSE] >>
        ELSE IF ~result.ok THEN << [type |-> "error", error |-> result.error] >>
        ELSE << [type |-> "snapshot_get", store_id |-> store_id, version |-> version, found |-> TRUE] >>

\* get resumes with the result of metadata.get.
GetData(i) ==
    /\ tasks[i].kind = "get" /\ tasks[i].pc = "meta"
    /\ done' = done \cup
         { [ kind |-> "get", store_id |-> tasks[i].store_id, version |-> tasks[i].version,
             result |-> GetResult(data_store, tasks[i].store_id, tasks[i].version, tasks[i].meta),
             emitted |-> GetEmits(data_store, tasks[i].store_id, tasks[i].version, tasks[i].meta) ] }
    /\ tasks' = DropTask(i)
    /\ UNCHANGED <<last_timestamp, sequence, call_a, call_b, meta_store, data_store, started, out, clock, layered, observation_store, semaphore, builder>>

\* delete calls metadata.get.
DeleteStart(store_id, version) ==
    /\ started.reads < MaxReads
    /\ Len(tasks) < MaxInFlight
    /\ tasks' = Append(tasks,
         [ kind |-> "delete", store_id |-> store_id, version |-> version,
           meta |-> metadata_storage_get(meta_store, store_id, version),
           pc |-> "meta" ])
    /\ started' = [started EXCEPT !.reads = @ + 1]
    /\ UNCHANGED <<last_timestamp, sequence, call_a, call_b, meta_store, data_store, done, out, clock, layered, observation_store, semaphore, builder>>

\* delete resumes with no meta: the not_found error is returned.
DeleteMissing(i) ==
    /\ tasks[i].kind = "delete" /\ tasks[i].pc = "meta"
    /\ IsNull(tasks[i].meta)
    /\ done' = done \cup
         { [ kind |-> "delete", store_id |-> tasks[i].store_id, version |-> tasks[i].version,
             result |-> NotFound(tasks[i].store_id, tasks[i].version), emitted |-> <<>> ] }
    /\ tasks' = DropTask(i)
    /\ UNCHANGED <<last_timestamp, sequence, call_a, call_b, meta_store, data_store, started, out, clock, layered, observation_store, semaphore, builder>>

\* delete resumes with a meta: metadata.delete removes the row.
DeleteMeta(i) ==
    /\ tasks[i].kind = "delete" /\ tasks[i].pc = "meta"
    /\ ~IsNull(tasks[i].meta)
    /\ meta_store' = metadata_storage_delete(meta_store, tasks[i].store_id, tasks[i].version)
    /\ done' = done \cup
         { [ kind |-> "delete", store_id |-> tasks[i].store_id, version |-> tasks[i].version,
             result |-> Ok(None),
             emitted |-> << [ type |-> "meta_delete", store_id |-> tasks[i].store_id,
                              version |-> tasks[i].version ] >> ] }
    /\ tasks' = DropTask(i)
    /\ UNCHANGED <<last_timestamp, sequence, call_a, call_b, data_store, started, out, clock, layered, observation_store, semaphore, builder>>

Init ==
    /\ last_timestamp = 0
    /\ sequence = 0
    /\ call_a = Null
    /\ call_b = Null
    /\ meta_store = <<>>
    /\ data_store = <<>>
    /\ tasks = <<>>
    /\ done = {}
    /\ started = [puts |-> 0, reads |-> 0]
    /\ out = Null
    /\ clock = [last |-> 0, monotone |-> TRUE]
    /\ layered = Null
    /\ observation_store = <<>>
    /\ semaphore = Null
    /\ builder = Null

\* put, get and delete interleaved at their awaits, every call of the run
\* within one millisecond; SpecPuts below lets the clock move between calls.
Next ==
    \/ \E s \in StoreIds, d \in Payloads, o \in PutOptsSet, t \in SameMillisecond :
          PutStart(MaxPuts, s, d, o, t)
    \/ \E i \in 1..Len(tasks) : PutFind(i)
    \/ \E i \in 1..Len(tasks) : PutData(i)
    \/ \E i \in 1..Len(tasks), t \in SameMillisecond : PutMetaDedup(i, t)
    \/ \E i \in 1..Len(tasks), t \in SameMillisecond : PutMeta(i, t)
    \/ \E s \in StoreIds, v \in KnownVersions : GetStart(s, v)
    \/ \E i \in 1..Len(tasks) : GetData(i)
    \/ \E s \in StoreIds, v \in KnownVersions : DeleteStart(s, v)
    \/ \E i \in 1..Len(tasks) : DeleteMissing(i)
    \/ \E i \in 1..Len(tasks) : DeleteMeta(i)

Spec == Init /\ [][Next]_vars

\* Runs of puts alone.
NextPuts ==
    \/ \E s \in StoreIds, d \in Payloads, o \in PutOptsSet, t \in Times : PutStart(MaxPutsOnly, s, d, o, t)
    \/ \E i \in 1..Len(tasks) : PutFind(i)
    \/ \E i \in 1..Len(tasks) : PutData(i)
    \/ \E i \in 1..Len(tasks), t \in Times : PutMetaDedup(i, t)
    \/ \E i \in 1..Len(tasks), t \in Times : PutMeta(i, t)

SpecPuts == Init /\ [][NextPuts]_vars

\* A sequence of puts to one store: a put is called when the one before has
\* returned, and every row the backend holds is of the store that is put to.
OneStore(store_id) == \A i \in 1..Len(meta_store) : meta_store[i][2].store_id = store_id

NextSeqPuts ==
    \/ \E s \in StoreIds, d \in Payloads, o \in PutOptsSet, t \in Times :
          Len(tasks) = 0 /\ OneStore(s) /\ PutStart(MaxPutsOnly, s, d, o, t)
    \/ \E i \in 1..Len(tasks) : PutFind(i)
    \/ \E i \in 1..Len(tasks) : PutData(i)
    \/ \E i \in 1..Len(tasks), t \in Times : PutMetaDedup(i, t)
    \/ \E i \in 1..Len(tasks), t \in Times : PutMeta(i, t)

SpecSeqPuts == Init /\ [][NextSeqPuts]_vars

(***************************************************************************)
(* generate_version called on its own                                      *)
(***************************************************************************)
\* One call of generate_version with the reading now. call_b is this call;
\* call_a is one of the earlier calls (the previous sample, or the previous
\* call), with mono telling whether every reading since call_a was at least
\* the reading before it.
GenerateVersion(now, resample) ==
    /\ clock' = Tick(now)
    /\ NextSequence(now) <= MaxSeq
    /\ last_timestamp' = now
    /\ sequence' = NextSequence(now)
    /\ call_b' = Some([version |-> VersionString(now, NextSequence(now)), at |-> now, mono |-> TRUE])
    /\ call_a' = IF IsNull(call_b) THEN Null
                 ELSE LET a == IF resample \/ IsNull(call_a) THEN The(call_b) ELSE The(call_a)
                      IN  Some([a EXCEPT !.mono = a.mono /\ The(call_b).at <= now])
    /\ UNCHANGED <<meta_store, data_store, tasks, done, started, out, layered, observation_store, semaphore, builder>>

NextVersion == \E t \in Times, resample \in BOOLEAN : GenerateVersion(t, resample)

SpecVersion == Init /\ [][NextVersion]_vars

(***************************************************************************)
(* The metadata client (create_metadata_client over metadata_storage)      *)
(***************************************************************************)
\* Array.includes
Includes(list, x) == \E i \in 1..Len(list) : list[i] = x

\* Array.sort((a, b) => b.created_at.getTime() - a.created_at.getTime()):
\* a stable sort, created_at descending.
RECURSIVE SortByCreatedDesc(_)
SortByCreatedDesc(list) ==
    IF Len(list) <= 1 THEN list
    ELSE LET x == list[Len(list)]
             rest == SortByCreatedDesc(SubSeq(list, 1, Len(list) - 1))
             \* x goes after every element that is not older than x
             k == Cardinality({ i \in 1..Len(rest) : rest[i].created_at >= x.created_at })
         IN  SubSeq(rest, 1, k) \o <<x>> \o SubSeq(rest, k + 1, Len(rest))

\* if (opts.limit) filtered = filtered.slice(0, opts.limit)
ApplyLimit(list, limit) ==
    IF ~IsNull(limit) /\ The(limit) # 0
    THEN SubSeq(list, 1, IF The(limit) < Len(list) THEN The(limit) ELSE Len(list))
    ELSE list

\* opts.tags.every(tag => m.tags?.includes(tag))
HasEveryTag(m, tags) ==
    \A i \in 1..Len(tags) : ~IsNull(m.tags) /\ Includes(The(m.tags), tags[i])

filter_snapshots(metas, opts) ==
    LET f1 == IF ~IsNull(opts.before)
              THEN SelectSeq(metas, LAMBDA m : m.created_at < The(opts.before)) ELSE metas
        f2 == IF ~IsNull(opts.after)
              THEN SelectSeq(f1, LAMBDA m : m.created_at > The(opts.after)) ELSE f1
        f3 == IF ~IsNull(opts.tags) /\ Len(The(opts.tags)) > 0
              THEN SelectSeq(f2, LAMBDA m : HasEveryTag(m, The(opts.tags))) ELSE f2
    IN  ApplyLimit(SortByCreatedDesc(f3), opts.limit)

\* metadata.list(store_id, opts): what the generator yields, in order.
\* metadata.get: NotFound when the storage returns null.
metadata_get(ms, store_id, version) ==
    LET meta == metadata_storage_get(ms, store_id, version)
    IN  IF IsNull(meta) THEN NotFound(store_id, version) ELSE Ok(The(meta))

\* metadata.find_by_hash hands the call to the storage.
metadata_find_by_hash(ms, store_id, content_hash) ==
    metadata_storage_find_by_hash(ms, store_id, content_hash)

metadata_list(ms, store_id, opts) == filter_snapshots(metadata_storage_list(ms, store_id), opts)

\* The loop of get_latest over the first n listed metas.
RECURSIVE LatestOf(_, _)
LatestOf(list, n) ==
    IF n = 0 THEN Null
    ELSE LET latest == LatestOf(list, n - 1)
         IN  IF IsNull(latest) \/ list[n].created_at > The(latest).created_at
             THEN Some(list[n]) ELSE latest

metadata_get_latest(ms, store_id) ==
    LET list == metadata_storage_list(ms, store_id)
        latest == LatestOf(list, Len(list))
    IN  IF IsNull(latest) THEN NotFound(store_id, <<"l", "a", "t", "e", "s", "t">>)
        ELSE Ok(The(latest))

\* The engine's get_latest (corpus.ts), over the metadata client above.
\* get_latest calls metadata.get_latest.
GetLatestStart(store_id) ==
    /\ started.reads < MaxReads
    /\ Len(tasks) < MaxInFlight
    /\ tasks' = Append(tasks,
         [ kind |-> "get_latest", store_id |-> store_id,
           meta_result |-> metadata_get_latest(meta_store, store_id), pc |-> "meta" ])
    /\ started' = [started EXCEPT !.reads = @ + 1]
    /\ UNCHANGED <<last_timestamp, sequence, call_a, call_b, meta_store, data_store, done, out, clock, layered, observation_store, semaphore, builder>>

\* get_latest resumes with the result of metadata.get_latest: the error is
\* returned as it is, else data.get and codec.decode; no event on either path.
GetLatestData(i) ==
    /\ tasks[i].kind = "get_latest" /\ tasks[i].pc = "meta"
    /\ done' = done \cup
         { [ kind |-> "get_latest", store_id |-> tasks[i].store_id,
             result |-> IF ~tasks[i].meta_result.ok THEN tasks[i].meta_result
                        ELSE GetResult(data_store, tasks[i].store_id,
                                       tasks[i].meta_result.value.version,
                                       Some(tasks[i].meta_result.value)),
             emitted |-> <<>> ] }
    /\ tasks' = DropTask(i)
    /\ UNCHANGED <<last_timestamp, sequence, call_a, call_b, meta_store, data_store, started, out, clock, layered, observation_store, semaphore, builder>>

\* The same calls and get_latest.
NextEvents ==
    \/ Next
    \/ \E s \in StoreIds : GetLatestStart(s)
    \/ \E i \in 1..Len(tasks) : GetLatestData(i)

SpecEvents == Init /\ [][NextEvents]_vars

\* A match that also wants the role to be absent.
is_child_with_role(meta, parent_store_id, parent_version) ==
    \E i \in 1..Len(meta.parents) :
        /\ meta.parents[i].store_id = parent_store_id
        /\ meta.parents[i].version = parent_version
        /\ meta.parents[i].role = None

\* meta.parents.some(p => p.store_id === parent_store_id && p.version === parent_version)
is_child(meta, parent_store_id, parent_version) ==
    \E i \in 1..Len(meta.parents) :
        /\ meta.parents[i].store_id = parent_store_id
        /\ meta.parents[i].version = parent_version

\* The metas get_children scans: storage.list("")
ChildrenScan(ms, parent_store_id) == metadata_storage_list(ms, <<>>)

metadata_get_children(ms, parent_store_id, parent_version) ==
    SelectSeq(ChildrenScan(ms, parent_store_id), LAMBDA m : is_child(m, parent_store_id, parent_version))

\* Versions, tags, lineage and list options used in direct metadata-client calls.
MetaVersions == { VersionString(ClockBase, 0), VersionString(ClockBase, 1) }

\* the rows the runs write: two versions of store a, one of store a:b
MetaKeys ==
    { <<s, v>> \in StoreIds \X MetaVersions : s = <<"a">> \/ v = VersionString(ClockBase, 0) }

ParentRefs(store_id, version, role) == [store_id |-> store_id, version |-> version, role |-> role]

\* (tags, parents) of the metas written
MetaProfiles ==
    { [tags |-> NoTags, parents |-> <<>>],
      [tags |-> Some(<<"x">>), parents |-> <<ParentRefs(<<"a">>, VersionString(ClockBase, 0), "r")>>],
      [tags |-> Some(<<"x", "y">>),
       parents |-> << ParentRefs(<<"a", ":", "b">>, VersionString(ClockBase, 0), None),
                      ParentRefs(<<"a">>, VersionString(ClockBase, 1), None) >>] }

MetaOf(store_id, version, created_at, profile) ==
    [ store_id     |-> store_id,
      version      |-> version,
      parents      |-> profile.parents,
      created_at   |-> created_at,
      content_hash |-> compute_hash(<<1>>),
      content_type |-> "application/octet-stream",
      size_bytes   |-> 1,
      data_key     |-> make_data_key(store_id, compute_hash(<<1>>)),
      tags         |-> profile.tags ]

ListOpts(before, after, tags, limit) ==
    [before |-> before, after |-> after, tags |-> tags, limit |-> limit]

ListOptsSet ==
    { ListOpts(Null, Null, Null, Null),
      ListOpts(Some(ClockBase + 1), Null, Null, Null),
      ListOpts(Null, Some(ClockBase), Null, Null),
      ListOpts(Null, Null, Some(<<"x", "y">>), Null),
      ListOpts(Null, Null, Null, Some(0)),
      ListOpts(Null, Null, Null, Some(1)),
      ListOpts(Some(ClockBase + 1), Null, Some(<<"x">>), Some(1)),
      ListOpts(Null, Some(ClockBase), Some(<<"x">>), Some(0)) }

\* metadata.put(meta)
MetaPut(meta) ==
    /\ \/ Len(meta_store) < MaxMetas
       \/ MapHas(meta_store, make_meta_key(meta.store_id, meta.version))
    /\ meta_store' = metadata_storage_put(meta_store, meta)
    /\ out' = Some([op |-> "put", result |-> Ok(None)])
    /\ UNCHANGED <<last_timestamp, sequence, call_a, call_b, data_store, tasks, done, started, clock, layered, observation_store, semaphore, builder>>

\* metadata.delete(store_id, version)
MetaDelete(store_id, version) ==
    /\ meta_store' = metadata_storage_delete(meta_store, store_id, version)
    /\ out' = Some([op |-> "delete", store_id |-> store_id, version |-> version,
                    existed |-> MapHas(meta_store, make_meta_key(store_id, version)),
                    result |-> Ok(None)])
    /\ UNCHANGED <<last_timestamp, sequence, call_a, call_b, data_store, tasks, done, started, clock, layered, observation_store, semaphore, builder>>

\* metadata.get(store_id, version)
MetaGet(store_id, version) ==
    /\ out' = Some([op |-> "get", store_id |-> store_id, version |-> version,
                    result |-> metadata_get(meta_store, store_id, version)])
    /\ UNCHANGED <<last_timestamp, sequence, call_a, call_b, meta_store, data_store, tasks, done, started, clock, layered, observation_store, semaphore, builder>>

\* metadata.find_by_hash(store_id, content_hash)
MetaFindByHash(store_id, content_hash) ==
    /\ out' = Some([op |-> "find_by_hash", store_id |-> store_id, content_hash |-> content_hash,
                    result |-> metadata_find_by_hash(meta_store, store_id, content_hash)])
    /\ UNCHANGED <<last_timestamp, sequence, call_a, call_b, meta_store, data_store, tasks, done, started, clock, layered, observation_store, semaphore, builder>>

\* metadata.list(store_id, opts), drained
MetaList(store_id, opts) ==
    /\ out' = Some([op |-> "list", store_id |-> store_id, opts |-> opts,
                    result |-> metadata_list(meta_store, store_id, opts)])
    /\ UNCHANGED <<last_timestamp, sequence, call_a, call_b, meta_store, data_store, tasks, done, started, clock, layered, observation_store, semaphore, builder>>

\* metadata.get_latest(store_id)
MetaGetLatest(store_id) ==
    /\ out' = Some([op |-> "get_latest", store_id |-> store_id,
                    result |-> metadata_get_latest(meta_store, store_id)])
    /\ UNCHANGED <<last_timestamp, sequence, call_a, call_b, meta_store, data_store, tasks, done, started, clock, layered, observation_store, semaphore, builder>>

\* metadata.get_children(parent_store_id, parent_version), drained
MetaGetChildren(parent_store_id, parent_version) ==
    /\ out' = Some([op |-> "get_children", store_id |-> parent_store_id, version |-> parent_version,
                    result |-> metadata_get_children(meta_store, parent_store_id, parent_version)])
    /\ UNCHANGED <<last_timestamp, sequence, call_a, call_b, meta_store, data_store, tasks, done, started, clock, layered, observation_store, semaphore, builder>>

NextMeta ==
    \/ \E k \in MetaKeys, c \in Times, p \in MetaProfiles : MetaPut(MetaOf(k[1], k[2], c, p))
    \/ \E k \in MetaKeys : MetaDelete(k[1], k[2])
    \/ \E k \in MetaKeys : MetaGet(k[1], k[2])
    \/ \E s \in StoreIds : MetaFindByHash(s, compute_hash(<<1>>))
    \/ \E s \in StoreIds, o \in ListOptsSet : MetaList(s, o)
    \/ \E s \in StoreIds : MetaGetLatest(s)
    \/ \E s \in StoreIds, v \in MetaVersions : MetaGetChildren(s, v)

SpecMeta == Init /\ [][NextMeta]_vars

(***************************************************************************)
(* Properties                                                              *)
(***************************************************************************)
\* The puts that returned Ok, with their input and the meta they returned.
OkPuts == { d \in done : d.kind = "put" /\ d.result.ok }

\* The rows of the metadata store.
Rows == { meta_store[i][2] : i \in 1..Len(meta_store) }

\* What store.get(version) returns when it runs without interruption now.
GetNow(store_id, version) ==
    GetResult(data_store, store_id, version, metadata_storage_get(meta_store, store_id, version))

\* C1: any two puts to the same store with equal encoded bytes return metas
\* with equal content_hash, equal data_key and different versions, and any two
\* rows of one store with the same content_hash have the same data_key.
C1_EqualBytesShareDataKey ==
    /\ \A p, q \in OkPuts :
         (p # q /\ p.store_id = q.store_id /\ encode(p.data) = encode(q.data)) =>
            /\ p.result.value.content_hash = q.result.value.content_hash
            /\ p.result.value.data_key = q.result.value.data_key
            /\ p.result.value.version # q.result.value.version
    /\ \A m, n \in Rows :
         (m.store_id = n.store_id /\ m.content_hash = n.content_hash) => m.data_key = n.data_key

\* C2: in every state reached by interleaved put, get and delete, every
\* visible metadata row has its blob in the data store under its data_key; a
\* get that has seen a row finds the blob, so get fails only for a missing row.
C2_VisibleMetaHasData ==
    /\ \A m \in Rows : MapHas(data_store, m.data_key)
    /\ \A i \in 1..Len(tasks) :
         (tasks[i].kind = "get" /\ ~IsNull(tasks[i].meta)) =>
            MapHas(data_store, The(tasks[i].meta).data_key)
    /\ \A d \in done :
         (d.kind = "get" /\ ~d.result.ok) =>
            (d.result.error.store_id = d.store_id /\ d.result.error.version = d.version)

\* A get has dereferenced a row while another row was visible.
C2_Witness ==
    /\ \E d \in done : d.kind = "get" /\ d.result.ok
    /\ Len(meta_store) >= 2

\* C3: after put(data) returned Ok(meta), get(meta.version) returns Ok with
\* that meta and with the input data, whatever was put later, as long as no
\* delete of that version has succeeded.
C3_PutThenGet ==
    \A p \in OkPuts :
        LET meta == p.result.value
            deleted == \E d \in done : /\ d.kind = "delete" /\ d.result.ok
                                       /\ d.store_id = p.store_id /\ d.version = meta.version
            got == GetNow(p.store_id, meta.version)
        IN  ~deleted => (got.ok /\ got.value.meta = meta /\ got.value.data = p.data)

\* C4: the step in which store.delete(version) removes the row leaves the
\* data store as it was, removes that row and no other, and every remaining
\* row with the same data_key can still be read with get.
C4_DeleteRemovesOnlyMeta ==
    [][\A i \in 1..Len(tasks) :
          DeleteMeta(i) =>
            LET key == make_meta_key(tasks[i].store_id, tasks[i].version)
                data_key == The(tasks[i].meta).data_key
            IN  /\ data_store' = data_store
                /\ MapHas(data_store', data_key)
                /\ MapKeys(meta_store') = MapKeys(meta_store) \ {key}
                /\ \A k \in MapKeys(meta_store') : MapGet(meta_store', k) = MapGet(meta_store, k)
                /\ \A j \in 1..Len(meta_store') :
                     LET m == meta_store'[j][2]
                         got == GetResult(data_store', m.store_id, m.version,
                                          metadata_storage_get(meta_store', m.store_id, m.version))
                     IN  m.data_key = data_key =>
                            (got.ok /\ got.value.data = The(MapGet(data_store, data_key)))]_vars

\* A delete has returned Ok for a version some put returned, and another row
\* with the deleted version's data_key is still there.
C4_Witness ==
    \E d \in done, p \in OkPuts :
        /\ d.kind = "delete" /\ d.result.ok
        /\ p.store_id = d.store_id /\ p.result.value.version = d.version
        /\ ~MapHas(meta_store, make_meta_key(d.store_id, d.version))
        /\ \E m \in Rows : m.data_key = p.result.value.data_key

\* C5: of two generate_version calls, the earlier returns the lexicographically
\* smaller string, in the same millisecond and across milliseconds. Stated
\* for the runs most favourable to it: no reading between the two calls was
\* below the reading before it.
C5_EarlierSortsFirst ==
    (~IsNull(call_a) /\ The(call_a).mono) => StrLt(The(call_a).version, The(call_b).version)

\* C6: no two generate_version calls of one process return the same string,
\* whatever readings the wall clock returns.
C6_VersionsUnique ==
    ~IsNull(call_a) => The(call_a).version # The(call_b).version

\* C7: after two or more puts of the same bytes to one store, exactly one
\* blob of the data store holds that content for the store (the metas the
\* puts returned all point at it), and a key of the data store holds one blob.
C7_OneBlobPerContent ==
    /\ \A s \in StoreIds, b \in Payloads :
         LET puts == { p \in OkPuts : p.store_id = s /\ p.data = b }
             blobs == { k \in MapKeys(data_store) :
                          /\ The(MapGet(data_store, k)) = encode(b)
                          /\ \E p \in puts : p.result.value.data_key = k }
         IN  Cardinality(puts) >= 2 => Cardinality(blobs) = 1
    /\ \A i, j \in 1..Len(data_store) : data_store[i][1] = data_store[j][1] => i = j

\* C8: the metas list(store_id, opts) yields are in created_at-descending
\* order, at most opts.limit many, and each has every tag of opts.tags and a
\* created_at strictly before opts.before and strictly after opts.after.
C8_ListContract ==
    (~IsNull(out) /\ The(out).op = "list") =>
        LET r == The(out).result
            o == The(out).opts
        IN  /\ \A i, j \in 1..Len(r) : i < j => r[i].created_at >= r[j].created_at
            /\ ~IsNull(o.limit) => Len(r) <= The(o.limit)
            /\ \A i \in 1..Len(r) :
                 /\ ~IsNull(o.tags) => HasEveryTag(r[i], The(o.tags))
                 /\ ~IsNull(o.before) => r[i].created_at < The(o.before)
                 /\ ~IsNull(o.after) => r[i].created_at > The(o.after)

\* C9: get_latest(store_id) returns the meta of the store that is maximal by
\* (created_at, version), and NotFound exactly when the store has no metas.
\* Stated for backends that hold rows of that one store only.
C9_LatestIsMaxByCreatedThenVersion ==
    (~IsNull(out) /\ The(out).op = "get_latest" /\ \A m \in Rows : m.store_id = The(out).store_id) =>
        LET r == The(out).result
            Before(m, n) == \/ m.created_at < n.created_at
                            \/ (m.created_at = n.created_at /\ StrLt(m.version, n.version))
        IN  /\ ~r.ok <=> Rows = {}
            /\ r.ok => (r.value \in Rows /\ \A m \in Rows : m # r.value => Before(m, r.value))

\* C10: get_children(s, v) yields exactly the metas, of any store, whose
\* parents hold a ref with store_id s and version v, whatever the ref's role.
C10_ChildrenExact ==
    (~IsNull(out) /\ The(out).op = "get_children") =>
        LET r == The(out).result
            s == The(out).store_id
            v == The(out).version
        IN  /\ { r[i] : i \in 1..Len(r) } =
                 { m \in Rows : \E i \in 1..Len(m.parents) :
                                   m.parents[i].store_id = s /\ m.parents[i].version = v }
            /\ \A i, j \in 1..Len(r) : r[i] = r[j] => i = j

\* get_children has yielded a child whose ref carries a role and that lives
\* in another store than the parent.
C10_Witness ==
    /\ ~IsNull(out) /\ The(out).op = "get_children"
    /\ \E i \in 1..Len(The(out).result) :
         LET m == The(out).result[i]
         IN  /\ m.store_id # The(out).store_id
             /\ \E k \in 1..Len(m.parents) : m.parents[k].role # None

(***************************************************************************)
(* The layered backend (create_layered_backend)                            *)
(***************************************************************************)
MaxLayers == 2   \* backends the layered backend is built over

LayerIds == 1..MaxLayers

\* A backend that answers a call with a storage failure: none (0) or one of them.
Faults == 0..MaxLayers

\* The read and write lists the runs are configured with: none of the
\* backends, the first alone, all in order, all in reverse order.
InOrder == [k \in LayerIds |-> k]
Reversed == [k \in LayerIds |-> MaxLayers + 1 - k]
ReadLists == { <<>>, InOrder, Reversed }
WriteLists == { <<>>, <<1>>, InOrder }

\* A backend of the lists: a metadata Map, a data Map and, when it has an
\* observations client, an observation Map.
NewBackend(with_observations) ==
    [ meta |-> <<>>, data |-> <<>>,
      observations |-> IF with_observations THEN Some(<<>>) ELSE Null ]

LayerTimes == { ClockBase, ClockBase + 1 }
LayerProfile == [tags |-> NoTags, parents |-> <<>>]
LayerStore == <<"a">>
LayerVersion == VersionString(ClockBase, 0)
LayerMetas == { MetaOf(LayerStore, LayerVersion, c, LayerProfile) : c \in LayerTimes }
LayerDataKey == make_data_key(LayerStore, compute_hash(<<1>>))

StorageError(operation) == Err([kind |-> "storage_error", operation |-> operation])

\* data.get of a backend: NotFound when the storage has no bytes under the key.
data_get(ds, data_key) ==
    LET bytes == data_storage_get(ds, data_key)
    IN  IF IsNull(bytes) THEN NotFound(data_key, <<>>) ELSE Ok(The(bytes))

\* What one backend answers to a read; fails says that its storage failed.
backend_metadata_get(b, fails, store_id, version) ==
    IF fails THEN StorageError("metadata.get") ELSE metadata_get(b.meta, store_id, version)

backend_data_get(b, fails, data_key) ==
    IF fails THEN StorageError("data.get") ELSE data_get(b.data, data_key)

backend_metadata_get_latest(b, fails, store_id) ==
    IF fails THEN StorageError("metadata.get_latest") ELSE metadata_get_latest(b.meta, store_id)

\* for (const backend of read): return the first answer that is ok or is an
\* error other than not_found. answers[k] is what read[k] answers when asked;
\* reached is how many backends were asked.
RECURSIVE ReadLoop_from_end(_, _)
ReadLoop_from_end(answers, k) ==
    LET j == Len(answers) + 1 - k
    IN  IF k > Len(answers) THEN [result |-> Null, reached |-> Len(answers)]
        ELSE IF answers[j].ok \/ answers[j].error.kind # "not_found"
        THEN [result |-> Some(answers[j]), reached |-> k]
        ELSE ReadLoop_from_end(answers, k + 1)

RECURSIVE ReadLoop_tolerant(_, _)
ReadLoop_tolerant(answers, k) ==
    IF k > Len(answers) THEN [result |-> Null, reached |-> Len(answers)]
    ELSE IF answers[k].ok THEN [result |-> Some(answers[k]), reached |-> k]
    ELSE ReadLoop_tolerant(answers, k + 1)

RECURSIVE ReadLoop(_, _)
ReadLoop(answers, k) ==
    IF k > Len(answers) THEN [result |-> Null, reached |-> Len(answers)]
    ELSE IF answers[k].ok \/ answers[k].error.kind # "not_found"
    THEN [result |-> Some(answers[k]), reached |-> k]
    ELSE ReadLoop(answers, k + 1)

\* layered metadata.get
layered_metadata_get(L, faulty, store_id, version) ==
    LET answers == [k \in 1..Len(L.read) |->
                      backend_metadata_get(L.backends[L.read[k]], faulty = L.read[k], store_id, version)]
        loop == ReadLoop(answers, 1)
    IN  [ result |-> IF IsNull(loop.result) THEN NotFound(store_id, version) ELSE The(loop.result),
          consulted |-> SubSeq(L.read, 1, loop.reached) ]

\* layered data.get
layered_data_get(L, faulty, data_key) ==
    LET answers == [k \in 1..Len(L.read) |->
                      backend_data_get(L.backends[L.read[k]], faulty = L.read[k], data_key)]
        loop == ReadLoop(answers, 1)
    IN  [ result |-> IF IsNull(loop.result) THEN NotFound(data_key, <<>>) ELSE The(loop.result),
          consulted |-> SubSeq(L.read, 1, loop.reached) ]

\* layered metadata.get_latest: keeps the latest of the ok answers, skips
\* not_found, returns any other error at once.
RECURSIVE LatestLoop(_, _, _)
LatestLoop(answers, k, latest) ==
    IF k > Len(answers) THEN [error |-> Null, latest |-> latest, reached |-> Len(answers)]
    ELSE IF ~answers[k].ok
    THEN IF answers[k].error.kind # "not_found"
         THEN [error |-> Some(answers[k]), latest |-> latest, reached |-> k]
         ELSE LatestLoop(answers, k + 1, latest)
    ELSE IF IsNull(latest) \/ answers[k].value.created_at > The(latest).created_at
    THEN LatestLoop(answers, k + 1, Some(answers[k].value))
    ELSE LatestLoop(answers, k + 1, latest)

layered_metadata_get_latest(L, faulty, store_id) ==
    LET answers == [k \in 1..Len(L.read) |->
                      backend_metadata_get_latest(L.backends[L.read[k]], faulty = L.read[k], store_id)]
        loop == LatestLoop(answers, 1, Null)
    IN  [ result |-> IF ~IsNull(loop.error) THEN The(loop.error)
                     ELSE IF IsNull(loop.latest)
                     THEN NotFound(store_id, <<"l", "a", "t", "e", "s", "t">>)
                     ELSE Ok(The(loop.latest)),
          consulted |-> SubSeq(L.read, 1, loop.reached) ]

\* layered metadata.put: for (const backend of write), the first failure is
\* returned. A backend whose storage fails stores nothing.
RECURSIVE MetaPutLoop_all(_, _, _, _, _)
MetaPutLoop_all(backends, write, k, meta, faulty) ==
    IF k > Len(write) THEN [backends |-> backends, result |-> Ok(None), invoked |-> Len(write)]
    ELSE IF faulty = write[k]
    THEN MetaPutLoop_all(backends, write, k + 1, meta, faulty)
    ELSE MetaPutLoop_all([backends EXCEPT ![write[k]].meta = metadata_storage_put(@, meta)],
                         write, k + 1, meta, faulty)

RECURSIVE MetaPutLoop(_, _, _, _, _)
MetaPutLoop(backends, write, k, meta, faulty) ==
    IF k > Len(write) THEN [backends |-> backends, result |-> Ok(None), invoked |-> Len(write)]
    ELSE IF faulty = write[k]
    THEN [backends |-> backends, result |-> StorageError("metadata.put"), invoked |-> k]
    ELSE MetaPutLoop([backends EXCEPT ![write[k]].meta = metadata_storage_put(@, meta)],
                     write, k + 1, meta, faulty)

layered_metadata_put(L, faulty, meta) == MetaPutLoop(L.backends, L.write, 1, meta, faulty)

\* What one backend does with data.put.
backend_data_put(backends, i, fails, data_key, bytes) ==
    IF fails THEN [backends |-> backends, result |-> StorageError("data.put")]
    ELSE [ backends |-> [backends EXCEPT ![i].data = data_storage_put(@, data_key, bytes)],
           result |-> Ok(None) ]

RECURSIVE DataPutLoop(_, _, _, _, _, _)
DataPutLoop(backends, write, k, data_key, bytes, faulty) ==
    IF k > Len(write) THEN [backends |-> backends, result |-> Ok(None), invoked |-> Len(write)]
    ELSE LET step == backend_data_put(backends, write[k], faulty = write[k], data_key, bytes)
         IN  IF ~step.result.ok
             THEN [backends |-> step.backends, result |-> step.result, invoked |-> k]
             ELSE DataPutLoop(step.backends, write, k + 1, data_key, bytes, faulty)

\* layered data.put: nothing to do for an empty write list, the one backend's
\* own data.put for a single one, else to_bytes and the loop.
layered_data_put(L, faulty, data_key, bytes) ==
    IF Len(L.write) = 0 THEN [backends |-> L.backends, result |-> Ok(None), invoked |-> 0]
    ELSE IF Len(L.write) = 1
    THEN LET step == backend_data_put(L.backends, L.write[1], faulty = L.write[1], data_key, bytes)
         IN  [backends |-> step.backends, result |-> step.result, invoked |-> 1]
    ELSE DataPutLoop(L.backends, L.write, 1, data_key, bytes, faulty)

\* A call on the layered backend that reads.
LayeredRead(op, faulty, answer) ==
    /\ out' = Some([op |-> op, faulty |-> faulty, result |-> answer.result,
                    consulted |-> answer.consulted])
    /\ UNCHANGED <<last_timestamp, sequence, call_a, call_b, meta_store, data_store, tasks, done,
                   started, clock, layered, observation_store, semaphore, builder>>

LayeredMetaGet(faulty) ==
    LayeredRead("metadata.get", faulty,
                layered_metadata_get(The(layered), faulty, LayerStore, LayerVersion))

LayeredDataGet(faulty) ==
    LayeredRead("data.get", faulty, layered_data_get(The(layered), faulty, LayerDataKey))

LayeredGetLatest(faulty) ==
    LayeredRead("metadata.get_latest", faulty,
                layered_metadata_get_latest(The(layered), faulty, LayerStore))

\* A call on the layered backend that writes; before is the state of the
\* backends when it was called.
LayeredWrite(op, faulty, wrote) ==
    /\ layered' = Some([The(layered) EXCEPT !.backends = wrote.backends])
    /\ out' = Some([op |-> op, faulty |-> faulty, result |-> wrote.result,
                    invoked |-> SubSeq(The(layered).write, 1, wrote.invoked),
                    before |-> The(layered).backends])
    /\ UNCHANGED <<last_timestamp, sequence, call_a, call_b, meta_store, data_store, tasks, done,
                   started, clock, observation_store, semaphore, builder>>

LayeredMetaPut(meta, faulty) ==
    LayeredWrite("metadata.put", faulty, layered_metadata_put(The(layered), faulty, meta))

LayeredDataPut(bytes, faulty) ==
    LayeredWrite("data.put", faulty, layered_data_put(The(layered), faulty, LayerDataKey, bytes))

\* Another holder of backend i writes a row or a blob to it directly.
BackendMetaPut(i, meta, max_rows) ==
    /\ \/ Len(The(layered).backends[i].meta) < max_rows
       \/ MapHas(The(layered).backends[i].meta, make_meta_key(meta.store_id, meta.version))
    /\ layered' = Some([The(layered) EXCEPT !.backends[i].meta = metadata_storage_put(@, meta)])
    /\ out' = Null
    /\ UNCHANGED <<last_timestamp, sequence, call_a, call_b, meta_store, data_store, tasks, done,
                   started, clock, observation_store, semaphore, builder>>

BackendDataPut(i, bytes) ==
    /\ layered' = Some([The(layered) EXCEPT !.backends[i].data = data_storage_put(@, LayerDataKey, bytes)])
    /\ out' = Null
    /\ UNCHANGED <<last_timestamp, sequence, call_a, call_b, meta_store, data_store, tasks, done,
                   started, clock, observation_store, semaphore, builder>>

InitLayered(reads, writes, strategies, with_observations) ==
    /\ last_timestamp = 0
    /\ sequence = 0
    /\ call_a = Null
    /\ call_b = Null
    /\ meta_store = <<>>
    /\ data_store = <<>>
    /\ tasks = <<>>
    /\ done = {}
    /\ started = [puts |-> 0, reads |-> 0]
    /\ out = Null
    /\ clock = [last |-> 0, monotone |-> TRUE]
    /\ observation_store = <<>>
    /\ semaphore = Null
    /\ builder = Null
    /\ \E r \in reads, w \in writes, s \in strategies, o \in with_observations :
         layered = Some([ read |-> r, write |-> w, list_strategy |-> s,
                          backends |-> [i \in LayerIds |-> NewBackend(o[i])] ])

MaxLayerRows == 2   \* rows another holder writes to one backend

NextLayered ==
    \/ \E i \in LayerIds, m \in LayerMetas : BackendMetaPut(i, m, MaxLayerRows)
    \/ \E i \in LayerIds, d \in Payloads : BackendDataPut(i, encode(d))
    \/ \E f \in Faults : LayeredMetaGet(f)
    \/ \E f \in Faults : LayeredDataGet(f)
    \/ \E f \in Faults : LayeredGetLatest(f)
    \/ \E m \in LayerMetas, f \in Faults : LayeredMetaPut(m, f)
    \/ \E d \in Payloads, f \in Faults : LayeredDataPut(encode(d), f)

SpecLayered ==
    /\ InitLayered(ReadLists, WriteLists, {"merge"}, { [i \in LayerIds |-> FALSE] })
    /\ [][NextLayered]_vars

\* layered metadata.list, strategy merge: every read backend is listed with
\* the caller's opts; a meta whose version was seen already is skipped.
RECURSIVE GatherLoop(_, _, _, _)
GatherLoop(pages, k, i, all) ==
    IF k > Len(pages) THEN all
    ELSE IF i > Len(pages[k]) THEN GatherLoop(pages, k + 1, 1, all)
    ELSE IF \E n \in 1..Len(all) : all[n].version = pages[k][i].version
    THEN GatherLoop(pages, k, i + 1, all)
    ELSE GatherLoop(pages, k, i + 1, Append(all, pages[k][i]))

\* all.slice(0, opts?.limit ?? Infinity)
SliceLimit(all, limit) ==
    IF IsNull(limit) \/ The(limit) >= Len(all) THEN all ELSE SubSeq(all, 1, The(limit))

layered_metadata_list(L, store_id, opts) ==
    IF Len(L.read) = 0 THEN <<>>
    ELSE IF L.list_strategy = "first"
    THEN metadata_list(L.backends[L.read[1]].meta, store_id, opts)
    ELSE LET pages == [k \in 1..Len(L.read) |->
                         metadata_list(L.backends[L.read[k]].meta, store_id, opts)]
         IN  SliceLimit(SortByCreatedDesc(GatherLoop(pages, 1, 1, <<>>)), opts.limit)

\* layered metadata.list(store_id, opts), drained
LayeredList(opts) ==
    /\ out' = Some([op |-> "metadata.list", opts |-> opts,
                    result |-> layered_metadata_list(The(layered), LayerStore, opts)])
    /\ UNCHANGED <<last_timestamp, sequence, call_a, call_b, meta_store, data_store, tasks, done,
                   started, clock, layered, observation_store, semaphore, builder>>

\* the rows the backends of the list runs hold: two versions of one store
ListMetas == { MetaOf(LayerStore, v, c, LayerProfile) : v \in MetaVersions, c \in LayerTimes }

NextLayeredList ==
    \/ \E i \in LayerIds, m \in ListMetas : BackendMetaPut(i, m, MaxLayerRows)
    \/ \E o \in ListOptsSet : LayeredList(o)

SpecLayeredList ==
    /\ InitLayered(ReadLists, { <<>> }, {"merge", "first"}, { [i \in LayerIds |-> FALSE] })
    /\ [][NextLayeredList]_vars

(***************************************************************************)
(* Observations (create_observations_client over the memory storage)       *)
(***************************************************************************)
MaxObs == 2   \* observations.put calls started in one run

Base36Digits ==
    << "0", "1", "2", "3", "4", "5", "6", "7", "8", "9", "a", "b", "c", "d", "e", "f", "g", "h",
       "i", "j", "k", "l", "m", "n", "o", "p", "q", "r", "s", "t", "u", "v", "w", "x", "y", "z" >>

\* Number.prototype.toString(36) of a non-negative integer
RECURSIVE ToBase36(_)
ToBase36(n) ==
    IF n < 36 THEN <<Base36Digits[n + 1]>>
    ELSE Append(ToBase36(n \div 36), Base36Digits[(n % 36) + 1])

\* What Math.random().toString(36).substring(2, 10) comes to in the runs.
Randoms == { <<"a", "7">>, <<"k", "2">> }

generate_observation_id(now, random) ==
    <<"o", "b", "s", "_">> \o ToBase36(now) \o <<"_">> \o random

\* Date.prototype.toISOString of an instant of the first second of the epoch
PadStart3(digits) ==
    IF Len(digits) = 1 THEN <<"0", "0">> \o digits
    ELSE IF Len(digits) = 2 THEN <<"0">> \o digits
    ELSE digits

toISOString(t) ==
    << "1", "9", "7", "0", "-", "0", "1", "-", "0", "1", "T",
       "0", "0", ":", "0", "0", ":", "0", "0", "." >> \o PadStart3(NumberToString(t % 1000)) \o <<"Z">>

\* Content values: a number, a string, a Date.
NumberValue(n) == [t |-> "number", n |-> n]
StringValue(s) == [t |-> "string", s |-> s]
DateValue(ms) == [t |-> "date", ms |-> ms]

Contents == { NumberValue(1), StringValue(<<"h", "i">>), DateValue(ClockBase) }

\* JSON.stringify: a number as its digits, a string in double quotes, a Date
\* as its toISOString in double quotes.
JSON_stringify(value) ==
    IF value.t = "number" THEN NumberToString(value.n)
    ELSE IF value.t = "string" THEN <<"\"">> \o value.s \o <<"\"">>
    ELSE <<"\"">> \o toISOString(value.ms) \o <<"\"">>

RECURSIVE ParseDigits(_, _)
ParseDigits(text, n) ==
    IF n = 0 THEN 0
    ELSE 10 * ParseDigits(text, n - 1)
         + (CHOOSE d \in 0..9 : NumberToString(d) = <<text[n]>>)

\* JSON.parse: text in double quotes is a string, digits are a number.
JSON_parse(text) ==
    IF text[1] = "\"" THEN StringValue(SubSeq(text, 2, Len(text) - 1))
    ELSE NumberValue(ParseDigits(text, Len(text)))

\* The types observations are put with, each with what its schema accepts.
TypeDefs ==
    { [name |-> "count", schema |-> "number"],
      [name |-> "seen", schema |-> "date"] }

\* a schema that accepts every content
safeParse_lenient(schema, content) == [success |-> TRUE, data |-> content]

\* schema.safeParse(content)
safeParse(schema, content) ==
    IF content.t = schema THEN [success |-> TRUE, data |-> content]
    ELSE [success |-> FALSE, error |-> [message |-> "invalid_type"]]

ObsSource == [store_id |-> <<"a">>, version |-> VersionString(ClockBase, 0)]

create_observation_row(id, type_name, source, content, now) ==
    [ id |-> id,
      type |-> type_name,
      source_store_id |-> source.store_id,
      source_version |-> source.version,
      source_path |-> IF "path" \in DOMAIN source THEN Some(source.path) ELSE Null,
      source_span_start |-> Null,
      source_span_end |-> Null,
      content |-> JSON_stringify(content),
      confidence |-> Null,
      observed_at |-> Null,
      created_at |-> toISOString(now),
      derived_from |-> Null ]

\* the source of row_to_base: path is spread in when row.source_path is truthy
row_source(row) ==
    IF IsNull(row.source_path) \/ The(row.source_path) = <<>>
    THEN [store_id |-> row.source_store_id, version |-> row.source_version]
    ELSE [store_id |-> row.source_store_id, version |-> row.source_version,
          path |-> The(row.source_path)]

row_to_meta(row) ==
    [ id |-> row.id,
      type |-> row.type,
      source |-> row_source(row),
      created_at |-> row.created_at ]

row_to_observation(row) ==
    [ id |-> row.id,
      type |-> row.type,
      source |-> row_source(row),
      created_at |-> row.created_at,
      content |-> JSON_parse(row.content) ]

ValidationError(message) == Err([kind |-> "validation_error", message |-> message])
ObservationNotFound(id) == Err([kind |-> "observation_not_found", id |-> id])

\* observations.put: validate, allocate the id, build the row, put_row.
\* t_id is the reading generate_observation_id takes, t_row the one
\* create_observation_row takes.
observations_put(store, type, source, content, t_id, random, t_row) ==
    LET validation == safeParse(type.schema, content)
        id == generate_observation_id(t_id, random)
        row == create_observation_row(id, type.name, source, validation.data, t_row)
    IN  IF ~validation.success
        THEN [store |-> store, result |-> ValidationError(validation.error.message)]
        ELSE [ store |-> MapSet(store, row.id, row),
               result |-> Ok([ id |-> id, type |-> type.name, source |-> source,
                               content |-> validation.data, created_at |-> row.created_at ]) ]

\* observations.get
observations_get(store, id) ==
    LET row == MapGet(store, id)
    IN  IF IsNull(row) THEN ObservationNotFound(id) ELSE Ok(row_to_observation(The(row)))

\* observations.delete
observations_delete(store, id) ==
    IF MapHas(store, id) THEN [store |-> MapDelete(store, id), result |-> Ok(None)]
    ELSE [store |-> store, result |-> ObservationNotFound(id)]

\* Ids a caller can pass to get and delete: those put has returned.
KnownIds == { d.id : d \in { e \in done : e.kind = "observations.put" } }

\* observations.put(type, {source, content}): the row is written before the
\* first await of the call is resumed, so the call is one step.
ObsPutAt(source, type, content, t_id, random, t_row) ==
    /\ started.puts < MaxObs
    /\ started' = [started EXCEPT !.puts = @ + 1]
    /\ clock' = [last |-> t_row, monotone |-> clock.monotone /\ clock.last <= t_id /\ t_id <= t_row]
    /\ LET put == observations_put(observation_store, type, source, content, t_id, random, t_row)
       IN  /\ observation_store' = put.store
           /\ out' = Some([op |-> "observations.put", type |-> type, content |-> content,
                           result |-> put.result, before |-> observation_store,
                           after |-> put.store])
           /\ done' = IF put.result.ok
                      THEN done \cup { [ kind |-> "observations.put", id |-> put.result.value.id,
                                         type |-> type, content |-> put.result.value.content ] }
                      ELSE done
    /\ UNCHANGED <<last_timestamp, sequence, call_a, call_b, meta_store, data_store, tasks, layered, semaphore, builder>>

ObsPut(type, content, t_id, random, t_row) == ObsPutAt(ObsSource, type, content, t_id, random, t_row)

ObsGet(id) ==
    /\ out' = Some([op |-> "observations.get", id |-> id,
                    result |-> observations_get(observation_store, id)])
    /\ UNCHANGED <<last_timestamp, sequence, call_a, call_b, meta_store, data_store, tasks, done,
                   started, clock, layered, observation_store, semaphore, builder>>

ObsDelete(id) ==
    /\ LET deleted == observations_delete(observation_store, id)
       IN  /\ observation_store' = deleted.store
           /\ out' = Some([op |-> "observations.delete", id |-> id, result |-> deleted.result])
           /\ done' = IF deleted.result.ok
                      THEN done \cup { [kind |-> "observations.delete", id |-> id] }
                      ELSE done
    /\ UNCHANGED <<last_timestamp, sequence, call_a, call_b, meta_store, data_store, tasks,
                   started, clock, layered, semaphore, builder>>

NextObs ==
    \/ \E ty \in TypeDefs, c \in Contents, t1 \in Times, r \in Randoms, t2 \in Times :
          ObsPut(ty, c, t1, r, t2)
    \/ \E id \in KnownIds : ObsGet(id)
    \/ \E id \in KnownIds : ObsDelete(id)

SpecObs == Init /\ [][NextObs]_vars

(***************************************************************************)
(* Observations of the layered backend (createLayeredObservationsClient)   *)
(***************************************************************************)
HasObservations(L, i) == ~IsNull(L.backends[i].observations)

\* writeLayers.filter(l => l.observations)
writeLayersWithObs(L) == SelectSeq(L.write, LAMBDA i : HasObservations(L, i))

\* readLayers.find(l => l.observations): <<>> when there is none
readLayer(L) ==
    LET with == SelectSeq(L.read, LAMBDA i : HasObservations(L, i))
    IN  IF Len(with) = 0 THEN Null ELSE Some(with[1])

\* The layered backend has an observations client.
HasLayeredObservations(L) == ~IsNull(readLayer(L)) \/ Len(writeLayersWithObs(L)) > 0

\* observations.put of backend i; fails says that its storage failed.
backend_observations_put(backends, i, fails, type, content, now, random) ==
    LET put == observations_put(The(backends[i].observations), type, ObsSource, content, now, random, now)
    IN  IF fails /\ put.result.ok
        THEN [backends |-> backends, result |-> StorageError("observations.put")]
        ELSE [ backends |-> [backends EXCEPT ![i].observations = Some(put.store)],
               result |-> put.result ]

\* observations.delete of backend i
backend_observations_delete(backends, i, fails, id) ==
    LET deleted == observations_delete(The(backends[i].observations), id)
    IN  IF fails THEN [backends |-> backends, result |-> StorageError("observations.delete")]
        ELSE [ backends |-> [backends EXCEPT ![i].observations = Some(deleted.store)],
               result |-> deleted.result ]

\* layered observations.put: every layer's own put in turn, the first failure
\* is returned, else the result of the last layer.
RECURSIVE ObsPutLoop(_, _, _, _, _, _, _, _, _)
ObsPutLoop(backends, layers, k, faulty, type, content, now, randoms, result) ==
    IF k > Len(layers) THEN [backends |-> backends, result |-> result, invoked |-> Len(layers)]
    ELSE LET step == backend_observations_put(backends, layers[k], faulty = layers[k],
                                              type, content, now, randoms[layers[k]])
         IN  IF ~step.result.ok
             THEN [backends |-> step.backends, result |-> step.result, invoked |-> k]
             ELSE ObsPutLoop(step.backends, layers, k + 1, faulty, type, content, now, randoms,
                             step.result)

layered_observations_put(L, faulty, type, content, now, randoms) ==
    IF Len(writeLayersWithObs(L)) = 0
    THEN [ backends |-> L.backends, invoked |-> 0,
           result |-> Err([kind |-> "invalid_config",
                           message |-> "No write layers support observations"]) ]
    ELSE ObsPutLoop(L.backends, writeLayersWithObs(L), 1, faulty, type, content, now, randoms,
                    Ok(None))

\* layered observations.get: the first read layer with observations answers.
layered_observations_get(L, id) ==
    IF IsNull(readLayer(L)) THEN ObservationNotFound(id)
    ELSE observations_get(The(L.backends[The(readLayer(L))].observations), id)

\* layered observations.delete: every layer's own delete in turn; the result
\* of the last layer is returned.
RECURSIVE ObsDeleteLoop(_, _, _, _, _, _)
ObsDeleteLoop(backends, layers, k, faulty, id, result) ==
    IF k > Len(layers) THEN [backends |-> backends, result |-> result, invoked |-> Len(layers)]
    ELSE LET step == backend_observations_delete(backends, layers[k], faulty = layers[k], id)
         IN  ObsDeleteLoop(step.backends, layers, k + 1, faulty, id, step.result)

layered_observations_delete(L, faulty, id) ==
    IF Len(writeLayersWithObs(L)) = 0
    THEN [backends |-> L.backends, invoked |-> 0, result |-> ObservationNotFound(id)]
    ELSE ObsDeleteLoop(L.backends, writeLayersWithObs(L), 1, faulty, id, Ok(None))

\* Ids a caller can pass: those of the rows any backend holds.
LayerObsIds ==
    UNION { IF HasObservations(The(layered), i)
            THEN MapKeys(The(The(layered).backends[i].observations)) ELSE {} : i \in LayerIds }

LayeredObsPut(type, content, now, randoms, faulty) ==
    /\ HasLayeredObservations(The(layered))
    /\ started.puts < MaxObs
    /\ started' = [started EXCEPT !.puts = @ + 1]
    /\ clock' = Tick(now)
    /\ LET put == layered_observations_put(The(layered), faulty, type, content, now, randoms)
       IN  /\ layered' = Some([The(layered) EXCEPT !.backends = put.backends])
           /\ out' = Some([op |-> "observations.put", faulty |-> faulty, result |-> put.result,
                           invoked |-> SubSeq(writeLayersWithObs(The(layered)), 1, put.invoked),
                           before |-> The(layered).backends])
    /\ UNCHANGED <<last_timestamp, sequence, call_a, call_b, meta_store, data_store, tasks, done,
                   observation_store, semaphore, builder>>

LayeredObsGet(id) ==
    /\ HasLayeredObservations(The(layered))
    /\ out' = Some([op |-> "observations.get", id |-> id,
                    result |-> layered_observations_get(The(layered), id)])
    /\ UNCHANGED <<last_timestamp, sequence, call_a, call_b, meta_store, data_store, tasks, done,
                   started, clock, layered, observation_store, semaphore, builder>>

LayeredObsDelete(id, faulty) ==
    /\ HasLayeredObservations(The(layered))
    /\ LET deleted == layered_observations_delete(The(layered), faulty, id)
       IN  /\ layered' = Some([The(layered) EXCEPT !.backends = deleted.backends])
           /\ out' = Some([op |-> "observations.delete", id |-> id, faulty |-> faulty,
                           result |-> deleted.result,
                           invoked |-> SubSeq(writeLayersWithObs(The(layered)), 1, deleted.invoked),
                           before |-> The(layered).backends])
    /\ UNCHANGED <<last_timestamp, sequence, call_a, call_b, meta_store, data_store, tasks, done,
                   started, clock, observation_store, semaphore, builder>>

NextLayeredObs ==
    \/ \E ty \in TypeDefs, c \in Contents, t \in SameMillisecond, rs \in [LayerIds -> Randoms],
          f \in Faults : LayeredObsPut(ty, c, t, rs, f)
    \/ \E id \in LayerObsIds : LayeredObsGet(id)
    \/ \E id \in LayerObsIds, f \in Faults : LayeredObsDelete(id, f)

SpecLayeredObs ==
    /\ InitLayered(ReadLists, WriteLists, {"merge"}, [LayerIds -> BOOLEAN])
    /\ [][NextLayeredObs]_vars

(***************************************************************************)
(* Observation queries, staleness and delete_by_source                     *)
(* (src/observations/index.ts, src/observations/storage.ts)                *)
(***************************************************************************)
\* Pointers the callers use: both versions of store a, and a path into one.
Pointers ==
    { [store_id |-> <<"a">>, version |-> v] : v \in MetaVersions }
        \cup { [store_id |-> <<"a">>, version |-> VersionString(ClockBase, 0), path |-> <<"$">>] }

\* Pointers the observations are put with: the first version, with and without
\* a path.
ObservedPointers == { p \in Pointers : p.version = VersionString(ClockBase, 0) }

\* The type the queried observations are put with, and its content.
CountType == CHOOSE ty \in TypeDefs : ty.name = "count"

QueryOpts(source_version, limit, include_stale, version_filter) ==
    [ type |-> Null, source_store |-> Null, source_version |-> source_version, limit |-> limit,
      include_stale |-> include_stale, version_filter |-> version_filter ]

QueryOptsSet ==
    { QueryOpts(Null, Null, Null, Null),
      QueryOpts(Null, Null, Some(FALSE), Null),
      QueryOpts(Null, Null, Some(TRUE), Null),
      QueryOpts(Some(VersionString(ClockBase, 1)), Null, Null, Null),
      QueryOpts(Null, Some(1), Null, Null),
      QueryOpts(Null, Null, Null, Some({ VersionString(ClockBase, 0) })) }

\* include_stale and version_filter are not storage options.
to_storage_opts(opts) ==
    [ type |-> opts.type, source_store_id |-> opts.source_store,
      source_version |-> opts.source_version, limit |-> opts.limit ]

\* sort: (a, b) => b.created_at.localeCompare(a.created_at), a stable sort
RECURSIVE SortRowsByCreatedDesc(_)
SortRowsByCreatedDesc(rows) ==
    IF Len(rows) <= 1 THEN rows
    ELSE LET x == rows[Len(rows)]
             rest == SortRowsByCreatedDesc(SubSeq(rows, 1, Len(rows) - 1))
             k == Cardinality({ i \in 1..Len(rest) : ~StrLt(rest[i].created_at, x.created_at) })
         IN  SubSeq(rest, 1, k) \o <<x>> \o SubSeq(rest, k + 1, Len(rest))

\* observation_filter_pipeline: each predicate applies when its option is
\* present; then the sort; then the limit.
filter_observation_rows(rows, opts) ==
    LET f1 == IF ~IsNull(opts.type)
              THEN SelectSeq(rows, LAMBDA r : r.type = The(opts.type)) ELSE rows
        f2 == IF ~IsNull(opts.source_store_id)
              THEN SelectSeq(f1, LAMBDA r : r.source_store_id = The(opts.source_store_id)) ELSE f1
        f3 == IF ~IsNull(opts.source_version)
              THEN SelectSeq(f2, LAMBDA r : r.source_version = The(opts.source_version)) ELSE f2
        sorted == SortRowsByCreatedDesc(f3)
    IN  IF ~IsNull(opts.limit) /\ The(opts.limit) < Len(sorted)
        THEN SubSeq(sorted, 1, The(opts.limit)) ELSE sorted

\* get_all: Array.from(observation_store.values())
get_all(store) == [i \in 1..Len(store) |-> store[i][2]]

\* set_all: clear, then set each row under its id
RECURSIVE set_all(_)
set_all(rows) ==
    IF Len(rows) = 0 THEN <<>>
    ELSE MapSet(set_all(SubSeq(rows, 1, Len(rows) - 1)), rows[Len(rows)].id, rows[Len(rows)])

\* query_rows without an adapter query: filter_observation_rows(get_all(), opts)
query_rows(store, opts) == filter_observation_rows(get_all(store), opts)

\* apply_version_filter with a Set: filter.has(version)
apply_version_filter(filter, store_id, version) == version \in filter

\* The rows query and query_meta go on to yield: opts.version_filter is the
\* only option read besides the storage options.
QueriedRows(store, opts) ==
    LET rows == query_rows(store, to_storage_opts(opts))
    IN  IF ~IsNull(opts.version_filter)
        THEN SelectSeq(rows, LAMBDA r :
                 apply_version_filter(The(opts.version_filter), r.source_store_id, r.source_version))
        ELSE rows

observations_query(store, opts) ==
    LET rows == QueriedRows(store, opts) IN [i \in 1..Len(rows) |-> row_to_observation(rows[i])]

observations_query_meta(store, opts) ==
    LET rows == QueriedRows(store, opts) IN [i \in 1..Len(rows) |-> row_to_meta(rows[i])]

\* get_latest_version: the version metadata.get_latest answers, or null
get_latest_version(ms, store_id) ==
    LET result == metadata_get_latest(ms, store_id)
    IN  IF result.ok THEN Some(result.value.version) ELSE Null

is_stale(ms, pointer) ==
    LET latest == get_latest_version(ms, pointer.store_id)
    IN  IF IsNull(latest) THEN FALSE ELSE pointer.version # The(latest)

\* The rows delete_by_source keeps.
toKeep(rows, pointer) ==
    SelectSeq(rows, LAMBDA r :
        ~( /\ r.source_store_id = pointer.store_id
           /\ r.source_version = pointer.version
           /\ ("path" \notin DOMAIN pointer \/ r.source_path = Some(pointer.path)) ))

ObsQuery(opts) ==
    /\ out' = Some([op |-> "observations.query", opts |-> opts,
                    result |-> observations_query(observation_store, opts),
                    metas |-> meta_store])
    /\ UNCHANGED <<last_timestamp, sequence, call_a, call_b, meta_store, data_store, tasks, done,
                   started, clock, layered, observation_store, semaphore, builder>>

ObsQueryMeta(opts) ==
    /\ out' = Some([op |-> "observations.query_meta", opts |-> opts,
                    result |-> observations_query_meta(observation_store, opts),
                    metas |-> meta_store])
    /\ UNCHANGED <<last_timestamp, sequence, call_a, call_b, meta_store, data_store, tasks, done,
                   started, clock, layered, observation_store, semaphore, builder>>

IsStale(pointer) ==
    /\ out' = Some([op |-> "observations.is_stale", pointer |-> pointer,
                    result |-> is_stale(meta_store, pointer), metas |-> meta_store])
    /\ UNCHANGED <<last_timestamp, sequence, call_a, call_b, meta_store, data_store, tasks, done,
                   started, clock, layered, observation_store, semaphore, builder>>

\* delete_by_source up to its first await: adapter.get_all() has taken its
\* copy of the rows.
DeleteBySourceStart(pointer) ==
    /\ started.reads < MaxReads
    /\ started' = [started EXCEPT !.reads = @ + 1]
    /\ tasks' = Append(tasks, [ kind |-> "delete_by_source", pointer |-> pointer,
                                rows |-> get_all(observation_store), pc |-> "get_all" ])
    /\ UNCHANGED <<last_timestamp, sequence, call_a, call_b, meta_store, data_store, done,
                   out, clock, layered, observation_store, semaphore, builder>>

\* delete_by_source resumes with the rows: set_all(toKeep) replaces the store.
DeleteBySourceFinish(i) ==
    /\ tasks[i].kind = "delete_by_source" /\ tasks[i].pc = "get_all"
    /\ LET keep == toKeep(tasks[i].rows, tasks[i].pointer)
       IN  /\ observation_store' = set_all(keep)
           /\ out' = Some([ op |-> "observations.delete_by_source", pointer |-> tasks[i].pointer,
                            result |-> Ok(Len(tasks[i].rows) - Len(keep)),
                            at_call |-> tasks[i].rows,
                            before |-> get_all(observation_store),
                            after |-> keep ])
    /\ tasks' = DropTask(i)
    /\ UNCHANGED <<last_timestamp, sequence, call_a, call_b, meta_store, data_store, done,
                   started, clock, layered, semaphore, builder>>

\* Snapshots of store a (and, for the prefix, of a:b) are written, observations
\* are put on them, queried and deleted by source.
NextObsQuery ==
    \/ \E k \in MetaKeys, c \in Times : MetaPut(MetaOf(k[1], k[2], c, LayerProfile))
    \/ \E p \in ObservedPointers, t \in SameMillisecond, r \in Randoms :
          ObsPutAt(p, CountType, NumberValue(1), t, r, t)
    \/ \E o \in QueryOptsSet : ObsQuery(o)
    \/ \E o \in QueryOptsSet : ObsQueryMeta(o)
    \/ \E p \in Pointers : IsStale(p)
    \/ \E p \in Pointers : DeleteBySourceStart(p)
    \/ \E i \in 1..Len(tasks) : DeleteBySourceFinish(i)

SpecObsQuery == Init /\ [][NextObsQuery]_vars

(***************************************************************************)
(* The corpus builder (src/corpus.ts: create_corpus)                       *)
(***************************************************************************)
MaxDefinitions == 3   \* with_store calls on one builder

\* The backends with_backend is given.
BackendNames == { "memory", "file" }

\* with_backend(b)
WithBackend(b) ==
    /\ builder' = [builder EXCEPT !.backend = Some(b)]
    /\ UNCHANGED <<last_timestamp, sequence, call_a, call_b, meta_store, data_store, tasks, done,
                   started, out, clock, layered, observation_store, semaphore>>

\* with_store(definition)
WithStore(id) ==
    /\ Len(builder.definitions) < MaxDefinitions
    /\ builder' = [builder EXCEPT !.definitions = Append(@, id)]
    /\ UNCHANGED <<last_timestamp, sequence, call_a, call_b, meta_store, data_store, tasks, done,
                   started, out, clock, layered, observation_store, semaphore>>

\* What build() comes to: it throws when there is no backend, else it returns
\* the corpus, one store per definition id.
build(b) ==
    IF IsNull(b.backend)
    THEN [ thrown |-> TRUE,
           error |-> [name |-> "Error", message |-> "Backend is required. Call with_backend() first."] ]
    ELSE [ thrown |-> FALSE,
           value |-> [ stores |-> { b.definitions[i] : i \in 1..Len(b.definitions) },
                       backend |-> The(b.backend) ] ]

Build ==
    /\ out' = Some([op |-> "build", backend |-> builder.backend, outcome |-> build(builder)])
    /\ UNCHANGED <<last_timestamp, sequence, call_a, call_b, meta_store, data_store, tasks, done,
                   started, clock, layered, observation_store, semaphore, builder>>

\* create_corpus(): no backend, no definitions
InitBuilder ==
    /\ last_timestamp = 0
    /\ sequence = 0
    /\ call_a = Null
    /\ call_b = Null
    /\ meta_store = <<>>
    /\ data_store = <<>>
    /\ tasks = <<>>
    /\ done = {}
    /\ started = [puts |-> 0, reads |-> 0]
    /\ out = Null
    /\ clock = [last |-> 0, monotone |-> TRUE]
    /\ layered = Null
    /\ observation_store = <<>>
    /\ semaphore = Null
    /\ builder = [backend |-> Null, definitions |-> <<>>]

NextBuilder ==
    \/ \E b \in BackendNames : WithBackend(b)
    \/ \E id \in StoreIds : WithStore(id)
    \/ Build

SpecBuilder == InitBuilder /\ [][NextBuilder]_vars

(***************************************************************************)
(* Semaphore and parallel_map (src/concurrency.ts)                         *)
(***************************************************************************)
MaxPermits == 2          \* new Semaphore(n) and parallel_map(.., c): n, c in 0..MaxPermits
MaxClients == 3          \* callers of one Semaphore
MaxRounds == 1           \* acquire calls of one caller
MaxExtraReleases == 1    \* release calls that follow no acquire of the caller
MaxItems == 4            \* items of one parallel_map call

Clients == 1..MaxClients

\* new Semaphore(permits)
NewSemaphore(permits) == [permits |-> permits, waiting |-> <<>>]

\* An acquire that also takes the permit when none is left.
semaphore_acquire_off_by_one(s, c) ==
    IF s.permits >= 0
    THEN [sem |-> [s EXCEPT !.permits = @ - 1], granted |-> TRUE]
    ELSE [sem |-> [s EXCEPT !.waiting = Append(@, c)], granted |-> FALSE]

\* acquire(): a free permit is taken at once; else the caller's resolve
\* function is pushed onto waiting.
semaphore_acquire(s, c) ==
    IF s.permits > 0
    THEN [sem |-> [s EXCEPT !.permits = @ - 1], granted |-> TRUE]
    ELSE [sem |-> [s EXCEPT !.waiting = Append(@, c)], granted |-> FALSE]

\* A release that takes the waiter pushed last.
semaphore_release_pop(s) ==
    IF Len(s.waiting) > 0
    THEN [ sem |-> [s EXCEPT !.waiting = SubSeq(@, 1, Len(@) - 1)],
           next |-> Some(s.waiting[Len(s.waiting)]) ]
    ELSE [sem |-> [s EXCEPT !.permits = @ + 1], next |-> Null]

\* A release that gives the permit back and calls no waiter.
semaphore_release_no_wake(s) == [sem |-> [s EXCEPT !.permits = @ + 1], next |-> Null]

\* A release that wakes the first waiter and also gives the permit back.
semaphore_release_and_increment(s) ==
    IF Len(s.waiting) > 0
    THEN [ sem |-> [s EXCEPT !.waiting = Tail(@), !.permits = @ + 1],
           next |-> Some(Head(s.waiting)) ]
    ELSE [sem |-> [s EXCEPT !.permits = @ + 1], next |-> Null]

\* release(): waiting.shift() is called if there is a waiter; else permits++.
semaphore_release(s) ==
    IF Len(s.waiting) > 0
    THEN [sem |-> [s EXCEPT !.waiting = Tail(@)], next |-> Some(Head(s.waiting))]
    ELSE [sem |-> [s EXCEPT !.permits = @ + 1], next |-> Null]

\* The callers after a release: the one whose resolve was called is woken.
Wake(ts, next) == IF IsNull(next) THEN ts ELSE [ts EXCEPT ![The(next)].pc = "woken"]

\* A caller calls acquire().
Acquire(c) ==
    /\ tasks[c].pc = "idle" /\ tasks[c].rounds < MaxRounds
    /\ LET a == semaphore_acquire(The(semaphore), c)
       IN  /\ semaphore' = Some(a.sem)
           /\ tasks' = [tasks EXCEPT ![c] = [ pc |-> IF a.granted THEN "granted" ELSE "waiting",
                                               rounds |-> @.rounds + 1 ]]
           /\ out' = IF a.granted THEN out ELSE [out EXCEPT !.asked = Append(@, c)]
    /\ UNCHANGED <<last_timestamp, sequence, call_a, call_b, meta_store, data_store, done,
                   started, clock, layered, observation_store, builder>>

\* The caller's await of acquire() resumes: it holds a permit.
AcquireReturns(c) ==
    /\ tasks[c].pc \in {"granted", "woken"}
    /\ tasks' = [tasks EXCEPT ![c].pc = "holding"]
    /\ UNCHANGED <<last_timestamp, sequence, call_a, call_b, meta_store, data_store, done,
                   started, out, clock, layered, observation_store, semaphore, builder>>

\* A holder calls release().
Release(c) ==
    /\ tasks[c].pc = "holding"
    /\ LET r == semaphore_release(The(semaphore))
       IN  /\ semaphore' = Some(r.sem)
           /\ tasks' = Wake([tasks EXCEPT ![c].pc = "idle"], r.next)
           /\ out' = [out EXCEPT !.releases = @ + 1,
                                 !.woken = IF IsNull(r.next) THEN @ ELSE Append(@, The(r.next))]
    /\ UNCHANGED <<last_timestamp, sequence, call_a, call_b, meta_store, data_store, done,
                   started, clock, layered, observation_store, builder>>

\* release() is called by code that holds no permit.
ExtraRelease ==
    /\ out.extra < MaxExtraReleases
    /\ LET r == semaphore_release(The(semaphore))
       IN  /\ semaphore' = Some(r.sem)
           /\ tasks' = Wake(tasks, r.next)
           /\ out' = [out EXCEPT !.releases = @ + 1, !.extra = @ + 1,
                                 !.woken = IF IsNull(r.next) THEN @ ELSE Append(@, The(r.next))]
    /\ UNCHANGED <<last_timestamp, sequence, call_a, call_b, meta_store, data_store, done,
                   started, clock, layered, observation_store, builder>>

\* new Semaphore(n) shared by the callers; out keeps n, the callers that had to
\* wait, in the order of their acquire calls, the callers woken, in the order
\* of the wake-ups, and the number of release calls.
InitSemaphore ==
    /\ last_timestamp = 0
    /\ sequence = 0
    /\ call_a = Null
    /\ call_b = Null
    /\ meta_store = <<>>
    /\ data_store = <<>>
    /\ tasks = [c \in Clients |-> [pc |-> "idle", rounds |-> 0]]
    /\ done = {}
    /\ started = [puts |-> 0, reads |-> 0]
    /\ clock = [last |-> 0, monotone |-> TRUE]
    /\ layered = Null
    /\ observation_store = <<>>
    /\ builder = Null
    /\ \E n \in 0..MaxPermits :
          /\ semaphore = Some(NewSemaphore(n))
          /\ out = [permits |-> n, asked |-> <<>>, woken |-> <<>>, releases |-> 0, extra |-> 0]

NextSemaphore ==
    \/ \E c \in Clients : Acquire(c)
    \/ \E c \in Clients : AcquireReturns(c)
    \/ \E c \in Clients : Release(c)
    \/ ExtraRelease

SpecSemaphore == InitSemaphore /\ [][NextSemaphore]_vars

\* Callers that release only what they acquired.
NextSemaphoreMatched ==
    \/ \E c \in Clients : Acquire(c)
    \/ \E c \in Clients : AcquireReturns(c)
    \/ \E c \in Clients : Release(c)

\* new Semaphore(n) with at least one permit.
InitSemaphoreFair == InitSemaphore /\ out.permits >= 1

\* Such callers on a Semaphore with at least one permit, where a caller whose
\* acquire() promise is resolved resumes (the event loop runs its
\* continuation) and every holder of a permit calls release() in the end.
SpecSemaphoreFair ==
    /\ InitSemaphoreFair
    /\ [][NextSemaphoreMatched]_vars
    /\ \A c \in Clients : WF_vars(AcquireReturns(c)) /\ WF_vars(Release(c))

\* items.map(async (item, index) => { await semaphore.acquire(); .. }): the
\* callbacks run in index order and each calls acquire() before any resumes.
RECURSIVE AcquireLoop(_, _)
AcquireLoop(s, n) ==
    IF n = 0 THEN s ELSE semaphore_acquire(AcquireLoop(s, n - 1), n).sem

\* parallel_map(items, mapper, concurrency) up to the await of Promise.all.
ParallelMapStart(n, c) ==
    /\ IsNull(semaphore)
    /\ LET s == AcquireLoop(NewSemaphore(c), n)
       IN  /\ semaphore' = Some(s)
           /\ tasks' = [i \in 1..n |->
                          [pc |-> IF \E k \in 1..Len(s.waiting) : s.waiting[k] = i
                                  THEN "waiting" ELSE "granted"]]
    /\ out' = Some([ op |-> "parallel_map", items |-> n, concurrency |-> c,
                     results |-> [i \in 1..n |-> Null],
                     settled |-> IF n = 0 THEN "resolved" ELSE "pending" ])
    /\ UNCHANGED <<last_timestamp, sequence, call_a, call_b, meta_store, data_store, done,
                   started, clock, layered, observation_store, builder>>

\* The callback of item i resumes from acquire() and calls the mapper.
MapperStart(i) ==
    /\ tasks[i].pc \in {"granted", "woken"}
    /\ tasks' = [tasks EXCEPT ![i].pc = "running"]
    /\ UNCHANGED <<last_timestamp, sequence, call_a, call_b, meta_store, data_store, done,
                   started, out, clock, layered, observation_store, semaphore, builder>>

\* A Promise.all that waits for every callback to fulfil and never rejects.
PromiseAll_never_rejects(settled, ts, fulfilled) ==
    IF settled # "pending" THEN settled
    ELSE IF \A k \in 1..Len(ts) : ts[k].pc = "done" THEN "resolved"
    ELSE "pending"

\* How Promise.all stands once the callback of one more item has settled.
PromiseAll(settled, ts, fulfilled) ==
    IF settled # "pending" THEN settled
    ELSE IF ~fulfilled THEN "rejected"
    ELSE IF \A k \in 1..Len(ts) : ts[k].pc = "done" THEN "resolved"
    ELSE "pending"

\* The mapper call of item i settles: results[index] is assigned when it
\* resolved, and the finally block releases either way.
MapperSettles(i, fulfilled) ==
    /\ tasks[i].pc = "running"
    /\ LET r == semaphore_release(The(semaphore))
           ts == Wake([tasks EXCEPT ![i].pc = IF fulfilled THEN "done" ELSE "failed"], r.next)
       IN  /\ semaphore' = Some(r.sem)
           /\ tasks' = ts
           /\ out' = Some([The(out) EXCEPT
                        !.results = IF fulfilled THEN [@ EXCEPT ![i] = Some(i)] ELSE @,
                        !.settled = PromiseAll(@, ts, fulfilled)])
    /\ UNCHANGED <<last_timestamp, sequence, call_a, call_b, meta_store, data_store, done,
                   started, clock, layered, observation_store, builder>>

NextParallelMap ==
    \/ \E n \in 0..MaxItems, c \in 0..MaxPermits : ParallelMapStart(n, c)
    \/ \E i \in 1..Len(tasks) : MapperStart(i)
    \/ \E i \in 1..Len(tasks), fulfilled \in BOOLEAN : MapperSettles(i, fulfilled)

SpecParallelMap == Init /\ [][NextParallelMap]_vars

\* parallel_map where a callback whose acquire() promise is resolved resumes
\* and every mapper call settles.
SpecParallelMapFair ==
    /\ Init
    /\ [][NextParallelMap]_vars
    /\ \A i \in 1..MaxItems :
          /\ WF_vars(i <= Len(tasks) /\ MapperStart(i))
          /\ WF_vars(i <= Len(tasks) /\ \E fulfilled \in BOOLEAN : MapperSettles(i, fulfilled))

(***************************************************************************)
(* File backend metadata (src/backend/file.ts)                             *)
(***************************************************************************)
MaxFilePuts == 2         \* metadata.put calls on the file backend in one run

\* read_store_meta: the Map parsed from <store_id>/_meta.json, empty when the
\* file does not exist. meta_store maps a store id to its file's entries.
read_store_meta(files, store_id) ==
    IF MapHas(files, store_id) THEN The(MapGet(files, store_id)) ELSE <<>>

\* write_store_meta: the file is replaced by the entries of the Map.
write_store_meta(files, store_id, meta_map) == MapSet(files, store_id, meta_map)

\* file metadata.get
file_metadata_get(files, store_id, version) ==
    LET meta == MapGet(read_store_meta(files, store_id), version)
    IN  IF IsNull(meta) THEN NotFound(store_id, version) ELSE Ok(The(meta))

\* file metadata.list, drained
file_metadata_list(files, store_id, opts) ==
    LET store_meta == read_store_meta(files, store_id)
    IN  filter_snapshots([i \in 1..Len(store_meta) |-> store_meta[i][2]], opts)

\* file metadata.put up to its second await: the store's file has been read
\* and the call holds the Map it parsed.
FilePutRead(meta) ==
    /\ Len(tasks) < MaxFilePuts
    /\ LET in_flight == \E i \in 1..Len(tasks) : tasks[i].pc = "read"
       IN  tasks' = Append([i \in 1..Len(tasks) |->
                              IF tasks[i].pc = "read" THEN [tasks[i] EXCEPT !.overlapped = TRUE]
                              ELSE tasks[i]],
                           [ kind |-> "file_put", meta |-> meta, pc |-> "read",
                             store_meta |-> read_store_meta(meta_store, meta.store_id),
                             overlapped |-> in_flight ])
    /\ out' = Null
    /\ UNCHANGED <<last_timestamp, sequence, call_a, call_b, meta_store, data_store, done, started,
                   clock, layered, observation_store, semaphore, builder>>

\* The rest of file metadata.put: store_meta.set(version, meta), the file is
\* written from the call's Map, and Ok is returned.
FilePutWrite(i) ==
    /\ tasks[i].pc = "read"
    /\ LET meta == tasks[i].meta
       IN  /\ meta_store' = write_store_meta(meta_store, meta.store_id,
                                             MapSet(tasks[i].store_meta, meta.version, meta))
           /\ out' = Some([op |-> "metadata.put", meta |-> meta, result |-> Ok(None)])
    /\ tasks' = [tasks EXCEPT ![i].pc = "done"]
    /\ UNCHANGED <<last_timestamp, sequence, call_a, call_b, data_store, done, started, clock,
                   layered, observation_store, semaphore, builder>>

FileMetaGet(store_id, version) ==
    /\ out' = Some([op |-> "metadata.get", store_id |-> store_id, version |-> version,
                    result |-> file_metadata_get(meta_store, store_id, version)])
    /\ UNCHANGED <<last_timestamp, sequence, call_a, call_b, meta_store, data_store, tasks, done,
                   started, clock, layered, observation_store, semaphore, builder>>

NextFile ==
    \/ \E k \in MetaKeys, c \in Times : FilePutRead(MetaOf(k[1], k[2], c, LayerProfile))
    \/ \E i \in 1..Len(tasks) : FilePutWrite(i)
    \/ \E k \in MetaKeys : FileMetaGet(k[1], k[2])

SpecFile == Init /\ [][NextFile]_vars

(***************************************************************************)
(* Properties of the metadata client, the engine and the layered backend   *)
(***************************************************************************)
\* C11: list(store_id) and find_by_hash(store_id, hash) return only metas
\* whose store_id field equals the store_id argument.
C11_OnlyOwnStore ==
    /\ (~IsNull(out) /\ The(out).op = "list") =>
          \A i \in 1..Len(The(out).result) : The(out).result[i].store_id = The(out).store_id
    /\ (~IsNull(out) /\ The(out).op = "find_by_hash" /\ ~IsNull(The(out).result)) =>
          The(The(out).result).store_id = The(out).store_id

\* C12: metadata.delete returns Ok whether or not the row existed, and in the
\* state it leaves metadata.get of the same store_id and version is NotFound.
C12_DeleteThenGetNotFound ==
    (~IsNull(out) /\ The(out).op = "delete") =>
        /\ The(out).result.ok
        /\ ~metadata_get(meta_store, The(out).store_id, The(out).version).ok
        /\ metadata_get(meta_store, The(out).store_id, The(out).version).error.kind = "not_found"

\* delete has removed a row that metadata.put had written, while another row
\* stays behind.
C12_Witness ==
    /\ ~IsNull(out) /\ The(out).op = "delete" /\ The(out).existed
    /\ Len(meta_store) >= 1

\* C13: of two snapshots written by puts of one process, the one whose
\* version was generated earlier never has the later created_at, also when
\* the two puts are in flight together. Stated for runs in which the wall
\* clock never went back.
C13_CreatedAtFollowsVersionOrder ==
    clock.monotone =>
        \A p, q \in OkPuts :
            p.issued < q.issued => p.result.value.created_at <= q.result.value.created_at

\* What read backend k answers to the read recorded in out.
AnswerOf(k) ==
    LET L == The(layered)
        r == The(out)
        b == L.backends[L.read[k]]
    IN  IF r.op = "metadata.get" THEN backend_metadata_get(b, r.faulty = L.read[k], LayerStore, LayerVersion)
        ELSE IF r.op = "data.get" THEN backend_data_get(b, r.faulty = L.read[k], LayerDataKey)
        ELSE backend_metadata_get_latest(b, r.faulty = L.read[k], LayerStore)

IsNotFound(result) == ~result.ok /\ result.error.kind = "not_found"

LayeredGot == ~IsNull(out) /\ The(out).op \in {"metadata.get", "data.get"}

\* C14: a layered metadata.get or data.get returns the answer of the first
\* read backend, in read-list order, that holds the key, and NotFound exactly
\* when every read backend answers NotFound (an empty read list included).
C14_FirstHolderWins ==
    LayeredGot =>
        LET read == The(layered).read
            r == The(out)
        IN  /\ IsNotFound(r.result) <=> \A k \in 1..Len(read) : IsNotFound(AnswerOf(k))
            /\ \A k \in 1..Len(read) :
                 (AnswerOf(k).ok /\ \A j \in 1..(k - 1) : IsNotFound(AnswerOf(j)))
                     => r.result = AnswerOf(k)

\* The first read backend lacks the key, a later one holds it, and the
\* layered read returned the later one's answer.
C14_Witness ==
    /\ LayeredGot
    /\ Len(The(layered).read) >= 2
    /\ IsNotFound(AnswerOf(1))
    /\ \E k \in 2..Len(The(layered).read) : AnswerOf(k).ok /\ The(out).result = AnswerOf(k)

LayeredReadDone == ~IsNull(out) /\ The(out).op \in {"metadata.get", "data.get", "metadata.get_latest"}

\* The read backend at position k was asked and answered with an error other
\* than NotFound.
FailedAt(k) ==
    /\ ~AnswerOf(k).ok /\ ~IsNotFound(AnswerOf(k))
    /\ \A j \in 1..(k - 1) :
         IF The(out).op = "metadata.get_latest"
         THEN AnswerOf(j).ok \/ IsNotFound(AnswerOf(j))
         ELSE IsNotFound(AnswerOf(j))

LayeredPut == ~IsNull(out) /\ The(out).op \in {"metadata.put", "data.put"}

\* C16: layered metadata.put and data.put call the write backends one at a
\* time in write-list order; the first failure is returned and no later write
\* backend is called or changed; Ok is returned only when every write backend
\* succeeded.
C16_WritesStopAtFirstFailure ==
    LayeredPut =>
        LET write == The(layered).write
            r == The(out)
            failed == { k \in 1..Len(write) : write[k] = r.faulty }
        IN  /\ r.result.ok <=> failed = {}
            /\ r.result.ok => r.invoked = write
            /\ \A k \in failed :
                 /\ r.result.error.kind = "storage_error"
                 /\ r.invoked = SubSeq(write, 1, k)
                 /\ \A j \in (k + 1)..Len(write) :
                      The(layered).backends[write[j]] = r.before[write[j]]
            /\ \A i \in LayerIds :
                 (\A k \in 1..Len(r.invoked) : r.invoked[k] # i)
                     => The(layered).backends[i] = r.before[i]

\* The first write backend stored the write, the second failed, and the
\* failure came back.
C16_Witness ==
    /\ LayeredPut
    /\ Len(The(layered).write) >= 2
    /\ The(out).faulty = The(layered).write[2]
    /\ ~The(out).result.ok
    /\ The(layered).backends[The(layered).write[1]] # The(out).before[The(layered).write[1]]

\* What read backend k lists for the opts recorded in out when no limit is set.
FullPage(k) ==
    LET L == The(layered)
    IN  metadata_list(L.backends[L.read[k]].meta, LayerStore, [The(out).opts EXCEPT !.limit = Null])

\* The metas of the merge: of each version the meta of the earliest read
\* backend that lists it.
Merged ==
    { m \in UNION { { FullPage(k)[i] : i \in 1..Len(FullPage(k)) } : k \in 1..Len(The(layered).read) } :
        \E k \in 1..Len(The(layered).read) :
            /\ \E i \in 1..Len(FullPage(k)) : FullPage(k)[i] = m
            /\ \A j \in 1..(k - 1) : \A i \in 1..Len(FullPage(j)) : FullPage(j)[i].version # m.version }

\* C17: with list_strategy merge, layered list yields each version at most
\* once with the meta of the earliest read backend that has it, in created_at
\* descending order, and opts.limit cuts the merged and sorted whole: the
\* metas left out are no newer than the metas yielded.
C17_MergeThenLimit ==
    (~IsNull(out) /\ The(out).op = "metadata.list" /\ The(layered).list_strategy = "merge") =>
        LET r == The(out).result
            limit == The(out).opts.limit
            yielded == { r[i] : i \in 1..Len(r) }
        IN  /\ \A i, j \in 1..Len(r) : r[i].version = r[j].version => i = j
            /\ yielded \subseteq Merged
            /\ \A i, j \in 1..Len(r) : i < j => r[i].created_at >= r[j].created_at
            /\ Len(r) = IF IsNull(limit) \/ The(limit) >= Cardinality(Merged)
                        THEN Cardinality(Merged) ELSE The(limit)
            /\ \A m \in Merged \ yielded : \A i \in 1..Len(r) : r[i].created_at >= m.created_at

ObsPutsDone == { d \in done : d.kind = "observations.put" }
ObsDeleted == { d.id : d \in { e \in done : e.kind = "observations.delete" } }

\* C19: for every observation put that returned Ok(o) and whose id was not
\* deleted since, get(o.id) returns an observation whose content equals the
\* validated input content, whatever was put later.
C19_GetReturnsValidatedContent ==
    \A d \in ObsPutsDone :
        d.id \notin ObsDeleted =>
            LET got == observations_get(observation_store, d.id)
            IN  got.ok /\ got.value.content = d.content

\* The schema of the type a row names.
SchemaOf(type_name) == (CHOOSE ty \in TypeDefs : ty.name = type_name).schema

\* The contents a schema describes.
Satisfies(schema, content) == content.t = schema

DeleteFailsAt(i) ==
    \/ The(out).faulty = i
    \/ ~MapHas(The(The(out).before[i].observations), The(out).id)

\* C18: layered observations.delete goes through the write layers that have
\* an observations client in order, stops at the first failure and returns
\* it, and returns Ok only when the delete succeeded on all of them.
C18_DeleteStopsAtFirstFailure ==
    (~IsNull(out) /\ The(out).op = "observations.delete" /\ Len(The(out).invoked) > 0) =>
        LET layers == writeLayersWithObs(The(layered))
            r == The(out)
            failed == { k \in 1..Len(layers) : DeleteFailsAt(layers[k]) }
        IN  /\ r.result.ok <=> failed = {}
            /\ \A k \in failed :
                 (\A j \in 1..(k - 1) : j \notin failed) =>
                     /\ r.invoked = SubSeq(layers, 1, k)
                     /\ \A j \in (k + 1)..Len(layers) :
                          The(layered).backends[layers[j]] = r.before[layers[j]]

(***************************************************************************)
(* Properties of observation queries, staleness and delete_by_source       *)
(***************************************************************************)
\* The metas of one store among the rows ms, by exact store_id.
MetasOf(ms, store_id) ==
    { ms[i][2] : i \in { j \in 1..Len(ms) : ms[j][2].store_id = store_id } }

\* The store holds the pointer's version and a different, newer one.
NewerExists(ms, pointer) ==
    \E m \in MetasOf(ms, pointer.store_id), n \in MetasOf(ms, pointer.store_id) :
        /\ m.version = pointer.version
        /\ n.version # pointer.version
        /\ n.created_at > m.created_at

ObsQueried == ~IsNull(out) /\ The(out).op \in {"observations.query", "observations.query_meta"}

\* C21: query and query_meta without include_stale yield an observation only
\* if it is not stale: none whose source version is held by its store together
\* with a different, newer version.
C21_DefaultQueryLeavesStaleOut ==
    (ObsQueried /\ The(out).opts.include_stale # Some(TRUE)) =>
        \A i \in 1..Len(The(out).result) : ~NewerExists(The(out).metas, The(out).result[i].source)

\* The store of the pointer holds the pointer's version.
Held(ms, pointer) == \E m \in MetasOf(ms, pointer.store_id) : m.version = pointer.version

\* C22: for a pointer whose version its store holds, is_stale answers true
\* exactly when the store holds a different version with a greater created_at.
C22_StaleIffNewerVersion ==
    (~IsNull(out) /\ The(out).op = "observations.is_stale" /\ Held(The(out).metas, The(out).pointer)) =>
        (The(out).result <=> NewerExists(The(out).metas, The(out).pointer))

\* The row matches the pointer: store_id, version, and the path when the
\* pointer has one.
MatchesSource(row, pointer) ==
    /\ row.source_store_id = pointer.store_id
    /\ row.source_version = pointer.version
    /\ ("path" \in DOMAIN pointer => row.source_path = Some(pointer.path))

DeletedBySource == ~IsNull(out) /\ The(out).op = "observations.delete_by_source"

\* C23: delete_by_source(pointer) removes exactly the rows that match the
\* pointer, leaves every other row as it was, and returns how many it removed.
C23_DeleteBySourceExact ==
    DeletedBySource =>
        LET before == The(out).before
            after == The(out).after
            p == The(out).pointer
        IN  /\ after = SelectSeq(before, LAMBDA r : ~MatchesSource(r, p))
            /\ The(out).result = Ok(Len(before) - Len(after))

\* The same with no other call between the call and its return.
C23_Sequential ==
    (DeletedBySource /\ The(out).at_call = The(out).before) =>
        LET before == The(out).before
            after == The(out).after
            p == The(out).pointer
        IN  /\ after = SelectSeq(before, LAMBDA r : ~MatchesSource(r, p))
            /\ The(out).result = Ok(Len(before) - Len(after))

(***************************************************************************)
(* Properties of observation ids                                           *)
(***************************************************************************)
\* C24: an observation put that returns Ok has allocated an id no stored
\* observation had, so every row stored before is still there and the store
\* holds one row more.
C24_PutAllocatesFreshId ==
    (~IsNull(out) /\ The(out).op = "observations.put" /\ The(out).result.ok) =>
        /\ The(out).result.value.id \notin MapKeys(The(out).before)
        /\ \A i \in 1..Len(The(out).before) : The(out).after[i] = The(out).before[i]
        /\ Len(The(out).after) = Len(The(out).before) + 1

(***************************************************************************)
(* Properties of the engine's events                                       *)
(***************************************************************************)
\* C25: every put, get, get_latest and delete that returned an error has
\* emitted an error event carrying that error.
C25_ErrorsAreEmitted ==
    \A d \in done :
        (d.kind \in {"put", "get", "get_latest", "delete"} /\ ~d.result.ok) =>
            \E i \in 1..Len(d.emitted) :
                d.emitted[i].type = "error" /\ d.emitted[i].error = d.result.error

(***************************************************************************)
(* Properties of the builder                                               *)
(***************************************************************************)
\* C26: build() on a builder with no backend does not throw; it returns an
\* error result of kind invalid_config.
C26_BuildReportsInvalidConfig ==
    (~IsNull(out) /\ The(out).op = "build" /\ IsNull(The(out).backend)) =>
        /\ ~The(out).outcome.thrown
        /\ ~The(out).outcome.value.ok
        /\ The(out).outcome.value.error.kind = "invalid_config"

(***************************************************************************)
(* Properties of Semaphore and parallel_map                                *)
(***************************************************************************)
\* C27: the callers that had to wait are woken in the order of their acquire
\* calls, one per release: after every step the callers woken so far are the
\* first of those that asked, and a release wakes one caller exactly when one
\* is waiting.
C27_WaitersWokenInOrder ==
    [][ /\ Len(out'.woken) <= Len(out'.asked)
        /\ out'.woken = SubSeq(out'.asked, 1, Len(out'.woken))
        /\ (out'.releases = out.releases + 1) =>
               Len(out'.woken) = Len(out.woken) + (IF Len(out.asked) > Len(out.woken) THEN 1 ELSE 0)
        /\ (out'.releases = out.releases) => out'.woken = out.woken ]_vars

\* Two callers that waited have been woken, the later asker second.
C27_Witness ==
    /\ Len(out.woken) >= 2
    /\ out.woken[1] # out.woken[2]

\* The mapper calls in flight.
InFlight == { i \in 1..Len(tasks) : tasks[i].pc = "running" }

\* C28: during parallel_map(items, mapper, c) at most c mapper calls are in
\* flight.
C28_AtMostConcurrencyInFlight ==
    (~IsNull(out) /\ The(out).op = "parallel_map") =>
        Cardinality(InFlight) <= The(out).concurrency

\* As many mapper calls as the concurrency are in flight while an item waits
\* and an earlier mapper call has settled.
C28_Witness ==
    /\ ~IsNull(out) /\ The(out).op = "parallel_map"
    /\ The(out).concurrency >= 1
    /\ Cardinality(InFlight) = The(out).concurrency
    /\ \E i \in 1..Len(tasks) : tasks[i].pc = "waiting"
    /\ \E i \in 1..Len(tasks) : tasks[i].pc \in {"done", "failed"}

(***************************************************************************)
(* Properties of deduplication in a sequence of puts                       *)
(***************************************************************************)
\* The metas of the put's store that carry the hash of the put's bytes.
SameContent(ms, d) ==
    { m \in MetasOf(ms, d.store_id) : m.content_hash = compute_hash(encode(d.data)) }

\* Every data_put and snapshot_put event of the put carries this flag.
ReportsDeduplicated(d, flag) ==
    /\ Len(d.emitted) > 0
    /\ \A i \in 1..Len(d.emitted) : d.emitted[i].deduplicated = flag

C30_LimitZeroYieldsNothing ==
    (~IsNull(out) /\ The(out).op = "list" /\ The(out).opts.limit = Some(0)) =>
        Len(The(out).result) = 0

(***************************************************************************)
(* Properties of the order of list and of observation queries              *)
(***************************************************************************)
\* C31: in the output of list, of two metas with equal created_at the one
\* with the greater version comes first.
C31_TiesByVersionDescending ==
    (~IsNull(out) /\ The(out).op = "list") =>
        LET r == The(out).result
        IN  \A i \in 1..Len(r) : \A j \in 1..Len(r) :
                (i < j /\ r[i].created_at = r[j].created_at) => ~StrLt(r[i].version, r[j].version)

\* The entries of a Map in the opposite insertion order.
ReverseOrder(m) == [i \in 1..Len(m) |-> m[Len(m) + 1 - i]]

\* C32: the rows an observation query yields are in created_at-descending
\* order, and the order does not depend on the insertion order of the rows:
\* the same rows inserted in the opposite order give the same output.
C32_QueryOrderDetermined ==
    [][ (out' # out /\ ~IsNull(out') /\ The(out').op = "observations.query") =>
          LET r == The(out').result
          IN  /\ \A i \in 1..Len(r) : \A j \in 1..Len(r) :
                    i < j => ~StrLt(r[i].created_at, r[j].created_at)
              /\ r = observations_query(ReverseOrder(observation_store), The(out').opts) ]_vars


(***************************************************************************)
(* Properties of writes through a layered backend                          *)
(***************************************************************************)
\* C33: on a layered backend with an empty write list that exposes
\* observations, observations.put returns Ok and changes no underlying backend.
C33_EmptyWriteListIsNoOp ==
    ( /\ ~IsNull(out) /\ ~IsNull(layered)
      /\ The(out).op = "observations.put"
      /\ Len(The(layered).write) = 0 ) =>
        /\ The(out).result.ok
        /\ The(layered).backends = The(out).before


(***************************************************************************)
(* Properties of the permits of a Semaphore                                *)
(***************************************************************************)
\* The callers whose acquire has been answered and who have not released.
PermitHolders == { c \in Clients : tasks[c].pc \in {"granted", "woken", "holding"} }

\* C34: on a Semaphore created with n permits, as long as every release
\* follows a returned acquire of its caller, at most n acquire calls have
\* returned without their release, also right after a release has handed its
\* permit to a waiter.
C34_AtMostPermitsHeld ==
    out.extra = 0 => Cardinality(PermitHolders) <= out.permits

\* A release has handed its permit to a waiter while every permit is held.
C34_Witness ==
    /\ out.extra = 0
    /\ out.permits >= 1
    /\ Len(out.woken) > 0
    /\ \E c \in Clients : tasks[c].pc = "woken"
    /\ Cardinality(PermitHolders) = out.permits


\* C35: when the metadata.put of a put fails on a layered backend, so that put
\* returns that error, no metadata row of the version the put allocated (a
\* version no backend held before) is visible through the backend afterwards.
C35_FailedPutLeavesNoRow ==
    ( /\ ~IsNull(out) /\ ~IsNull(layered)
      /\ The(out).op = "metadata.put"
      /\ ~The(out).result.ok
      /\ \A i \in LayerIds :
            ~MapHas(The(out).before[i].meta, make_meta_key(LayerStore, LayerVersion)) ) =>
        ~layered_metadata_get(The(layered), 0, LayerStore, LayerVersion).result.ok


(***************************************************************************)
(* Properties of calls in flight at the same time                          *)
(***************************************************************************)
\* C36: once two metadata writes of puts to the same store that were in
\* flight at the same time have both returned Ok, get returns both versions
\* and list holds both, on the file backend.
C36_ConcurrentPutsBothStored ==
    (\A i \in 1..Len(tasks) : tasks[i].kind = "file_put" /\ tasks[i].pc = "done") =>
        \A i \in 1..Len(tasks) :
            tasks[i].overlapped =>
                LET m == tasks[i].meta
                    listed == file_metadata_list(meta_store, m.store_id, ListOpts(Null, Null, Null, Null))
                IN  /\ file_metadata_get(meta_store, m.store_id, m.version).ok
                    /\ \E k \in 1..Len(listed) : listed[k].version = m.version


\* C37: delete_by_source never removes a row that does not match its pointer:
\* every such row stored when it returns, among them the rows put while it
\* was in flight, is still stored afterwards.
C37_ConcurrentPutSurvivesDelete ==
    DeletedBySource =>
        LET before == The(out).before
            after == The(out).after
        IN  \A k \in 1..Len(before) :
                ~MatchesSource(before[k], The(out).pointer)
                    => \E j \in 1..Len(after) : after[j].id = before[k].id


(***************************************************************************)
(* Properties of observations on a layered backend                         *)
(***************************************************************************)
\* C38: on a layered backend whose first read layer with observations is also
\* a write layer, after observations.put has returned Ok(o) observations.get(o.id)
\* returns that observation, with one write layer and with more.
C38_PutThenGetOnLayered ==
    ( /\ ~IsNull(out) /\ ~IsNull(layered)
      /\ The(out).op = "observations.put"
      /\ The(out).result.ok
      /\ ~IsNull(readLayer(The(layered)))
      /\ \E k \in 1..Len(The(layered).write) : The(layered).write[k] = The(readLayer(The(layered))) ) =>
        LET got == layered_observations_get(The(layered), The(out).result.value.id)
        IN  got.ok /\ got.value.id = The(out).result.value.id


C40_ParallelMapSettles ==
    (~IsNull(out) /\ The(out).concurrency >= 1)
        ~> ( /\ ~IsNull(out)
             /\ The(out).settled # "pending"
             /\ \A i \in 1..Len(tasks) : tasks[i].pc \in {"done", "failed"} )

\* A call with more items than permits has rejected, and every item was run,
\* those that had to wait for a permit included.
C40_Witness ==
    /\ ~IsNull(out)
    /\ The(out).concurrency >= 1
    /\ The(out).items > The(out).concurrency
    /\ The(out).settled = "rejected"
    /\ \E i \in 1..Len(tasks) : tasks[i].pc = "failed"
    /\ \A i \in 1..Len(tasks) : tasks[i].pc \in {"done", "failed"}

====
